---- MODULE Spec2Model ----
(***************************************************************************)
(* Model of tool-tool's acquisition pipeline (logic/src/download_task.rs),  *)
(* its checksum ledger (logic/src/checksums.rs) and the archive extraction  *)
(* routines.                                                                *)
(*                                                                          *)
(* its executor (logic/src/run_command.rs, logic/src/lock_guard.rs), its    *)
(* template strings (logic/src/template_string.rs, template_expander.rs)    *)
(* and the expansion of a configuration (configuration/expand_config.rs).   *)
(*                                                                          *)
(* Two levels of the pipeline are modelled:                                 *)
(*   - the pipeline: processes running run_download_task against a shared   *)
(*     project directory (ledger file, cache directories, sidecar markers); *)
(*     archives are content identifiers whose entries are well formed;      *)
(*   - extraction paths: extract_zip / extract_targz applied to the entry   *)
(*     paths of one archive, with the file-system resolution of the path    *)
(*     each entry is written to.                                            *)
(***************************************************************************)
EXTENDS Integers, Sequences, FiniteSets, TLC

VARIABLES
    manifest,      \* the expanded configuration (config.tools)
    host,          \* adapter.get_platform()
    remote,        \* what each URL currently serves
    remoteChanges, \* how often the remote content has changed
    args,          \* adapter.args(): the program name, then the user's arguments
    hostEnv,       \* adapter.env(): the host environment, as <<name, value>> pairs
    child,         \* what the executed binary does: its exit code, and what
                   \* Adapter::now returns before and after it (milliseconds)
    ledgerFile,    \* the checksum ledger file on disk: its lines, <<>> if absent
    cache,         \* the cache directory of each tool
    active,        \* the processes of this behaviour
    pc,            \* position of each process
    runs,          \* runs started by each process
    result,        \* outcome of the current / last run of each process
    error,         \* the error value a failed run returned
    loaded,        \* workspace.checksums.sha512sums
    newSums,       \* new_sha512sums of run_download_task
    toolIdx,       \* index of the host-pass loop over config.tools
    secIdx,        \* index of the secondary-pass loops
    entryIdx,      \* index of the extraction loop over archive entries
    tempFile,      \* content of the file downloaded into the temp directory
    tempLive,      \* temp directories created in this run that still exist
    sha,           \* the digest computed from the downloaded file
    \* history of the current run, kept for stating the properties
    prevResult,    \* outcome of the previous run of the process
    loadedAtStart, \* the ledger as load_checksums read it
    fileAtStart,   \* the ledger file when the run started
    cacheAtStart,  \* the cache directories when the run started
    cacheAtSec,    \* the cache directories when the secondary pass started
    effects,       \* adapter effects of the run: <<kind, tool>>
    dl,            \* downloads of the run: [url, content, pass, known]
    ledgerReads,   \* reads of the ledger file in this run
    ledgerWrites,  \* writes of the ledger file in this run
    \* extraction-path level
    xFormat,       \* archive format under extraction
    xArchive,      \* its entries
    xIdx,          \* index of the extraction loop
    xWritten,      \* resolved paths created or written by the extraction
    xStatus,       \* "running", "ok" or "err"
    \* command execution
    lock,          \* the process holding the adapter's exclusive lock, or None
    cmd,           \* run_command of each process: position, locals, adapter calls
    \* template strings
    tpl,           \* one template: its text, the parser's locals, the expansion
    expansion,     \* expand_configuration_template_expressions: its loops, the
                   \* configuration it rewrites, the nested expand calls
    ledger         \* the ledger file as text and workspace.checksums

envVars  == <<manifest, host, remote, remoteChanges, args, hostEnv, child>>
fsVars   == <<ledgerFile, cache>>
procVars == <<active, pc, runs, result, error, loaded, newSums, toolIdx, secIdx,
              entryIdx, tempFile, tempLive, sha>>
histVars == <<prevResult, loadedAtStart, fileAtStart, cacheAtStart, cacheAtSec,
              effects, dl, ledgerReads, ledgerWrites>>
xVars    == <<xFormat, xArchive, xIdx, xWritten, xStatus>>
runVars  == <<lock, cmd>>
tplVars  == <<tpl, expansion, ledger>>
vars     == <<envVars, fsVars, procVars, histVars, xVars, runVars, tplVars>>

----------------------------------------------------------------------------
(* Bounds *)

MaxRuns == 2            \* runs per process, sequential specification
MaxRunsConc == 1        \* runs per process, concurrent specification
MaxRemoteChanges == 1   \* changes of the remote content per behaviour
MaxEntries == 2         \* entries of an archive at the extraction-path level

----------------------------------------------------------------------------
(* Configuration *)

Procs == {"p1", "p2"}
Tools == <<"t1", "t2">>
ToolSet == {"t1", "t2"}
\* DownloadPlatform derives Ord in declaration order: BTreeMap iteration order
PlatformOrder == <<"linux", "macos", "windows">>
Platforms == {"linux", "macos", "windows"}
Hosts == {"linux", "windows"}
URLs == {"u1", "u2", "u3", "u4"}
Contents == {"c1", "c2"}
NoUrl == "no_url"
None == "none"
EmptyMap == [u \in {} |-> None]

\* SHA-512 as a collision-free function of the content, in lowercase hex
compute_sha512(c) ==
    CASE c = "c1" -> "5df8ca04"
      [] c = "c2" -> "e464642c"
      [] OTHER    -> "cf83e135"
Digests == {compute_sha512(c) : c \in Contents}

\* the text of each URL, as tokens: names and the separators "/", "?", "#", "."
\*   u1 = https://example.com/test.tar.gz
\*   u2 = https://example.com/test.zip?foo=bar/x.tar.gz
\*   u3 = https://example.com/other.zip#a/b.tar.gz
\*   u4 = https://example.com/tool.7z?x=a.zip
UrlBase == <<"https:", "/", "/", "example", ".", "com", "/">>
UrlText(u) ==
    CASE u = "u1" -> UrlBase \o <<"test", ".", "tar", ".", "gz">>
      [] u = "u2" -> UrlBase \o <<"test", ".", "zip", "?", "foo=bar", "/", "x", ".", "tar", ".", "gz">>
      [] u = "u3" -> UrlBase \o <<"other", ".", "zip", "#", "a", "/", "b", ".", "tar", ".", "gz">>
      [] OTHER    -> UrlBase \o <<"tool", ".", "7z", "?", "x=a", ".", "zip">>

\* str::split(sep).next(): the text before the first separator
RECURSIVE SplitFirst(_, _)
SplitFirst(text, sep) ==
    IF text = <<>> \/ Head(text) = sep THEN <<>>
    ELSE <<Head(text)>> \o SplitFirst(Tail(text), sep)

\* str::rsplit('/').next(): the text after the last slash
RECURSIVE LastSegment(_)
LastSegment(text) ==
    IF \A i \in DOMAIN text : text[i] # "/" THEN text
    ELSE LastSegment(Tail(text))

EndsWith(text, suffix) ==
    /\ Len(suffix) <= Len(text)
    /\ SubSeq(text, Len(text) - Len(suffix) + 1, Len(text)) = suffix

\* query string and fragment are removed, the last path segment is the
\* filename; an empty one is no filename
get_filename_from_url(text) ==
    LET segment == LastSegment(SplitFirst(SplitFirst(text, "?"), "#"))
    IN IF segment = <<>> THEN None ELSE segment

\* FileType of a URL (FileType::None is written "NoType")
get_file_type_from_url(text) ==
    LET filename == get_filename_from_url(text)
    IN IF filename = None THEN "Unknown"
       ELSE IF EndsWith(filename, <<".", "exe">>) THEN "Exe"
       ELSE IF EndsWith(filename, <<".", "zip">>) THEN "Zip"
       ELSE IF EndsWith(filename, <<".", "tar", ".", "gz">>) THEN "TarGz"
       ELSE IF EndsWith(filename, <<".", "tar">>) THEN "NoType"
       ELSE IF \A i \in DOMAIN filename : filename[i] # "." THEN "NoType"
       ELSE "Other"

\* variant: every type but tar.gz is handed to the zip extractor
extract_tool_default_zip(file_type) ==
    IF file_type = "TarGz" THEN "extract_targz" ELSE "extract_zip"

\* extract_tool: the extractor of a file type; the arm left for every other
\* type is todo!()
extract_tool(file_type) ==
    CASE file_type = "Zip"   -> "extract_zip"
      [] file_type = "TarGz" -> "extract_targz"
      [] OTHER               -> "todo"

\* ToolConfiguration: download_urls (per platform) and default_download_artifact
ToolCfg(urls, default) == [download_urls |-> urls, default_download_artifact |-> default]
Lin(u) == [p \in {"linux"} |-> u]
LinWin(u, w) == [p \in {"linux", "windows"} |-> IF p = "linux" THEN u ELSE w]

Manifests ==
    { [t \in ToolSet |-> IF t = "t1" THEN ToolCfg(LinWin("u1", "u2"), NoUrl)
                                     ELSE ToolCfg(Lin("u1"), "u3")],
      [t \in ToolSet |-> IF t = "t1" THEN ToolCfg(LinWin("u1", "u2"), NoUrl)
                                     ELSE ToolCfg(Lin("u3"), NoUrl)],
      [t \in ToolSet |-> IF t = "t1" THEN ToolCfg(LinWin("u1", "u2"), NoUrl)
                                     ELSE ToolCfg(Lin("u3"), "u4")] }

\* entries of an archive at the pipeline level (well-formed, one file each),
\* in archive order
EntryOrder == <<"e1", "e2">>
Entries == {"e1", "e2"}

\* a cache directory: absent, or present with files and possibly a sidecar
AbsentDir == [exists |-> FALSE, files |-> [e \in Entries |-> None], sidecar |-> None]
EmptyDir  == [exists |-> TRUE,  files |-> [e \in Entries |-> None], sidecar |-> None]
ValidDir(c) == [exists |-> TRUE, files |-> [e \in Entries |-> c],
                sidecar |-> compute_sha512(c)]
\* complete extracted payload of the archive with digest d
HoldsPayload(dir, d) ==
    /\ dir.exists
    /\ \E c \in Contents : compute_sha512(c) = d /\ \A e \in Entries : dir.files[e] = c

Put(m, k, v) == [x \in DOMAIN m \cup {k} |-> IF x = k THEN v ELSE m[x]]

----------------------------------------------------------------------------
(* Checksum ledger file *)

\* key order of the BTreeMap<String, String>
UrlOrder == <<"u1", "u2", "u3", "u4">>

RECURSIVE ChecksumLines(_, _)
ChecksumLines(sums, i) ==
    IF i > Len(UrlOrder) THEN <<>>
    ELSE (IF UrlOrder[i] \in DOMAIN sums
          THEN <<[url |-> UrlOrder[i], checksum |-> sums[UrlOrder[i]]]>>
          ELSE <<>>) \o ChecksumLines(sums, i + 1)

\* save_checksums: one line per entry in key order; the file is overwritten
save_checksums(sums) == ChecksumLines(sums, 1)

\* load_checksums: every line is inserted into an empty map, a later line for
\* the same URL replacing an earlier one; an absent file is an empty ledger
load_checksums(file) ==
    [u \in {file[i].url : i \in DOMAIN file} |->
        LET last == CHOOSE i \in DOMAIN file :
                        /\ file[i].url = u
                        /\ \A j \in DOMAIN file : file[j].url = u => j <= i
        IN file[last].checksum]

\* the ledger file after save_checksums created it (checksums.rs line 49)
\* and before it wrote the content (line 50): a file without the table
\* sha512sums
TruncatedLedger == <<[url |-> NoUrl, checksum |-> None]>>

\* load_checksums line 23: a file without the table sha512sums is an error
LedgerLoads(file) == file # TruncatedLedger

----------------------------------------------------------------------------
(* download_tool: artifact selection *)

\* variant: the default artifact is preferred over the host platform's
SelectArtifactDefaultFirst(t) ==
    IF manifest[t].default_download_artifact # NoUrl
    THEN manifest[t].default_download_artifact
    ELSE IF host \in DOMAIN manifest[t].download_urls
         THEN manifest[t].download_urls[host]
         ELSE NoUrl

\* tool.download_urls.get(&host_platform).or(tool.default_download_artifact)
SelectArtifact(t) ==
    IF host \in DOMAIN manifest[t].download_urls
    THEN manifest[t].download_urls[host]
    ELSE manifest[t].default_download_artifact

CurTool(p) == Tools[toolIdx[p]]
CurUrl(p) == SelectArtifact(CurTool(p))

\* the slots (tool, platform) of the secondary pass, in iteration order
NSlots == Len(Tools) * Len(PlatformOrder)
SlotTool(k) == Tools[((k - 1) \div Len(PlatformOrder)) + 1]
SlotPlatform(k) == PlatformOrder[((k - 1) % Len(PlatformOrder)) + 1]
SlotDeclared(k) == SlotPlatform(k) \in DOMAIN manifest[SlotTool(k)].download_urls
SlotUrl(k) == manifest[SlotTool(k)].download_urls[SlotPlatform(k)]

\* the URLs a manifest mentions
ManifestUrls(m) ==
    UNION {{m[t].download_urls[q] : q \in DOMAIN m[t].download_urls} : t \in ToolSet}
      \cup ({m[t].default_download_artifact : t \in ToolSet} \ {NoUrl})

\* runs a process may start in this behaviour
RunLimit == IF Cardinality(active) = 1 THEN MaxRuns ELSE MaxRunsConc

\* a run ends with an error value: Err(...) propagated by `?`
Fail(p, kind, err) ==
    /\ pc' = [pc EXCEPT ![p] = "idle"]
    /\ result' = [result EXCEPT ![p] = kind]
    /\ error' = [error EXCEPT ![p] = err]

NoError == [kind |-> None]
AddEffects(p, es) == effects' = [effects EXCEPT ![p] = @ \cup es]

----------------------------------------------------------------------------
(* Initial states of the pipeline level *)

\* the ledger file is absent, or was written by an earlier run
InitLedgers ==
    {<<>>} \cup {save_checksums([u \in S |-> d]) :
                    S \in {{"u1"}, {"u1", "u2", "u3"}}, d \in Digests}

\* a cache directory is absent or was populated by an earlier run
InitCaches == [ToolSet -> {AbsentDir} \cup {ValidDir(c) : c \in Contents}]

----------------------------------------------------------------------------
(* Commands, arguments and environments *)

\* A text is a sequence of pieces: words, the blank " " and the quote "'".
ProgramName == <<"tool-tool">>

\* the commands each tool declares
ToolCommands(t) ==
    IF t = "t1" THEN {<<"lsd">>, <<"ll">>, <<"bar">>, <<"bad">>} ELSE {}

\* the expanded command string of each command:
\*   lsd -> "lsd"    ll -> "lsd -l 'a b'"    bar -> "fizz buzz"    bad -> "lsd 'x"
command_string(name) ==
    CASE name = <<"lsd">> -> <<"lsd">>
      [] name = <<"ll">>  -> <<"lsd", " ", "-l", " ", "'", "a", " ", "b", "'">>
      [] name = <<"bar">> -> <<"fizz", " ", "buzz">>
      [] OTHER            -> <<"lsd", " ", "'", "x">>

\* the environment pairs each tool declares
ToolEnv(t) ==
    IF t = "t1" THEN <<<<"FROBNIZZ", "nizzle">>, <<"FIZZ", "buzz">>>> ELSE <<>>

\* the first tool, in manifest order, that declares the command
RECURSIVE FindTool(_, _)
FindTool(name, i) ==
    IF i > Len(Tools) THEN None
    ELSE IF name \in ToolCommands(Tools[i]) THEN Tools[i]
    ELSE FindTool(name, i + 1)

\* find_command: the tool that owns the command, or the error that names it
find_command(name) ==
    LET t == FindTool(name, 1)
    IN [ok |-> t # None, tool |-> t]

\* shellish_parse::parse: blanks outside quotes separate the tokens, quotes
\* group and are removed, an unterminated quote is an error
RECURSIVE ShellishScan(_, _, _, _, _)
ShellishScan(text, quoted, open, word, tokens) ==
    IF text = <<>>
    THEN IF quoted THEN [ok |-> FALSE, tokens |-> <<>>]
         ELSE [ok |-> TRUE, tokens |-> IF open THEN Append(tokens, word) ELSE tokens]
    ELSE LET c == Head(text)
             rest == Tail(text)
         IN IF c = "'" THEN ShellishScan(rest, ~quoted, TRUE, word, tokens)
            ELSE IF c = " " /\ ~quoted
            THEN ShellishScan(rest, FALSE, FALSE, <<>>,
                              IF open THEN Append(tokens, word) ELSE tokens)
            ELSE ShellishScan(rest, quoted, TRUE, Append(word, c), tokens)

shellish_parse(text) == ShellishScan(text, FALSE, FALSE, <<>>, <<>>)

\* the value the host environment gives a variable
HostValue(name) ==
    CASE name = "SYSTEMDRIVE" -> "C:"
      [] name = "SYSTEMROOT"  -> "C:/Windows"
      [] name = "TEMP"        -> "C:/Temp"
      [] name = "TMP"         -> "C:/Tmp"
      [] name = "WINDIR"      -> "C:/Windir"
      [] name = "OS"          -> "Windows_NT"
      [] name = "PATH"        -> "/usr/bin"
      [] OTHER                -> "/home/user"

HostPairs(names) == [i \in 1..Len(names) |-> <<names[i], HostValue(names[i])>>]

\* the invocation of the earlier sections: the command lsd without arguments,
\* an empty host environment, a fast binary that exits with 0
DefaultArgs == <<ProgramName, <<"lsd">>>>
QuietChild == [spawns |-> TRUE, exit_code |-> 0, start_time |-> 0, end_time |-> 0]

InitInputs(argLists, hostEnvs, children) ==
    /\ args \in argLists
    /\ hostEnv \in hostEnvs
    /\ child \in children

\* no binary has been executed
NoCandidate == [tool |-> None, file |-> <<<<>>, "">>]

\* no request has been passed to Adapter::execute
NoRequest == [binary_path |-> NoCandidate, args |-> <<>>, env |-> <<>>]

\* run_command has not returned an error
NoFailure == [kind |-> None, command |-> <<>>, tool |-> None, binary |-> <<>>,
              extensions |-> <<>>, cause |-> <<>>]

\* run_command has not started: its locals and the counts of the adapter calls
\* it has made
\* no template is being parsed or expanded
TplIdle ==
    [status |-> "idle", origin |-> None, value |-> <<>>, parts |-> <<>>, start_pos |-> 0,
     current_pos |-> 0, idx |-> 1, result |-> <<>>,
     returned |-> [ok |-> FALSE, text |-> <<>>]]

\* the checksum store is unused
LedgerIdle ==
    [exists |-> FALSE, lines |-> <<>>, sha512sums |-> <<>>, status |-> "idle",
     error |-> None, before |-> <<>>, saved |-> <<>>, after_save |-> FALSE]

\* expand_configuration_template_expressions has not been called
ExpansionIdle ==
    [status |-> "idle", original_configuration |-> <<>>, configuration |-> <<>>,
     tool |-> 1, field |-> 1, stack |-> <<>>, error |-> <<>>, resolved |-> <<>>]

NotExited == 0 - 1

CmdIdle ==
    [rpc |-> "none", tool |-> None, attempts |-> 0, has_messaged |-> FALSE,
     tryLocks |-> 0, sleeps |-> 0, prints |-> 0, acquired |-> 0, unlocks |-> 0,
     badUnlocks |-> 0, extIdx |-> 1, checked |-> <<>>, binary |-> None,
     errors |-> <<>>, executed |-> NoCandidate, lockedAtExecute |-> FALSE, outcome |-> None,
     command_name |-> <<>>, command_args |-> <<>>, binary_name |-> <<>>,
     parsed_command |-> <<>>, request |-> NoRequest, executes |-> 0, exit_code |-> 0,
     messages |-> <<>>, failure |-> NoFailure, exit |-> NotExited, trace |-> <<>>]

XIdle ==
    /\ xFormat = None
    /\ xArchive = <<>>
    /\ xIdx = 0
    /\ xWritten = {}
    /\ xStatus = None

\* processes at the start of an invocation (outcome = None), or right after
\* run_download_task returned Ok (outcome = "ok")
InitProcesses(procs, manifests, hosts, ledgers, caches, outcome) ==
    /\ manifest \in manifests
    /\ host \in hosts
    /\ remote = [u \in URLs |-> "c1"]
    /\ remoteChanges = 0
    /\ ledgerFile \in ledgers
    /\ cache \in caches
    /\ active = procs
    /\ pc = [p \in Procs |-> "idle"]
    /\ runs = [p \in Procs |-> 0]
    /\ result = [p \in Procs |-> outcome]
    /\ error = [p \in Procs |-> NoError]
    /\ loaded = [p \in Procs |-> EmptyMap]
    /\ newSums = [p \in Procs |-> EmptyMap]
    /\ toolIdx = [p \in Procs |-> 1]
    /\ secIdx = [p \in Procs |-> 1]
    /\ entryIdx = [p \in Procs |-> 1]
    /\ tempFile = [p \in Procs |-> None]
    /\ tempLive = [p \in Procs |-> 0]
    /\ sha = [p \in Procs |-> None]
    /\ prevResult = [p \in Procs |-> None]
    /\ loadedAtStart = [p \in Procs |-> EmptyMap]
    /\ fileAtStart = [p \in Procs |-> <<>>]
    /\ cacheAtStart = [p \in Procs |-> cache]
    /\ cacheAtSec = [p \in Procs |-> cache]
    /\ effects = [p \in Procs |-> {}]
    /\ dl = [p \in Procs |-> {}]
    /\ ledgerReads = [p \in Procs |-> 0]
    /\ ledgerWrites = [p \in Procs |-> 0]
    /\ lock = None
    /\ cmd = [p \in Procs |-> CmdIdle]

InitInvocation(procs, manifests, hosts, ledgers, caches, outcome) ==
    /\ InitProcesses(procs, manifests, hosts, ledgers, caches, outcome)
    /\ InitInputs({DefaultArgs}, {<<>>}, {QuietChild})
    /\ tpl = TplIdle
    /\ expansion = ExpansionIdle
    /\ ledger = LedgerIdle

InitPipeline(procs, manifests, hosts, ledgers, caches) ==
    InitInvocation(procs, manifests, hosts, ledgers, caches, None)

Init == InitPipeline({"p1"}, Manifests, Hosts, InitLedgers, InitCaches) /\ XIdle

\* concurrent invocations on one project: the first manifest on a Linux host
InitConc ==
    /\ InitPipeline(Procs,
                    {m \in Manifests : m["t2"].default_download_artifact = "u3"},
                    {"linux"},
                    {<<>>, save_checksums([u \in {"u1", "u2", "u3"} |-> compute_sha512("c1")])},
                    {[t \in ToolSet |-> AbsentDir],
                     [t \in ToolSet |-> IF t = "t1" THEN ValidDir("c2") ELSE AbsentDir]})
    /\ XIdle

----------------------------------------------------------------------------
(* create_workspace + the head of run_download_task *)


create_workspace(p) ==
    /\ pc[p] = "idle"
    /\ runs[p] < RunLimit
    /\ runs' = [runs EXCEPT ![p] = @ + 1]
    /\ prevResult' = [prevResult EXCEPT ![p] = result[p]]
    /\ fileAtStart' = [fileAtStart EXCEPT ![p] = ledgerFile]
    /\ cacheAtStart' = [cacheAtStart EXCEPT ![p] = cache]
    /\ effects' = [effects EXCEPT ![p] = {<<"ledger_read", "-">>}]
    /\ dl' = [dl EXCEPT ![p] = {}]
    /\ ledgerReads' = [ledgerReads EXCEPT ![p] = 1]
    /\ ledgerWrites' = [ledgerWrites EXCEPT ![p] = 0]
    /\ tempLive' = [tempLive EXCEPT ![p] = 0]
    /\ cmd[p].rpc \in {"none", "done"}
    /\ cmd' = [cmd EXCEPT ![p] = CmdIdle]
    /\ IF LedgerLoads(ledgerFile)
       THEN /\ loaded' = [loaded EXCEPT ![p] = load_checksums(ledgerFile)]
            /\ newSums' = [newSums EXCEPT ![p] = load_checksums(ledgerFile)]
            /\ loadedAtStart' = [loadedAtStart EXCEPT ![p] = load_checksums(ledgerFile)]
            /\ toolIdx' = [toolIdx EXCEPT ![p] = 1]
            /\ pc' = [pc EXCEPT ![p] = "host"]
            /\ result' = [result EXCEPT ![p] = "running"]
            /\ error' = [error EXCEPT ![p] = NoError]
       ELSE /\ Fail(p, "ledger_error", [kind |-> "ledger_error"])
            /\ UNCHANGED <<loaded, newSums, loadedAtStart, toolIdx>>
    /\ UNCHANGED <<envVars, fsVars, active, secIdx, entryIdx, tempFile, sha,
                   cacheAtSec, xVars, lock, tplVars>>

\* download_tool returned Ok: the loop of run_download_task goes to the next
\* tool, or on to the secondary pass
NextTool(p) ==
    /\ toolIdx' = [toolIdx EXCEPT ![p] = @ + 1]
    /\ pc' = [pc EXCEPT ![p] = IF toolIdx[p] + 1 > Len(Tools) THEN "sec" ELSE "host"]
    /\ secIdx' = [secIdx EXCEPT ![p] = 1]
    /\ cacheAtSec' = [cacheAtSec EXCEPT ![p] = cache']

----------------------------------------------------------------------------
(* download_tool *)

\* the "already downloaded" test: the URL has a ledger entry, the sidecar
\* marker exists and its content equals the entry
SidecarMatches(p, t, u) ==
    /\ u \in DOMAIN loaded[p]
    /\ cache[t].sidecar # None
    /\ cache[t].sidecar = loaded[p][u]

SidecarEffects(p, t, u) ==
    IF u \in DOMAIN loaded[p]
    THEN {<<"sidecar_exists", t>>}
           \cup (IF cache[t].sidecar # None THEN {<<"sidecar_read", t>>} ELSE {})
    ELSE {}

download_tool_check(p) ==
    /\ pc[p] = "host"
    /\ LET t == CurTool(p)
           u == CurUrl(p)
       IN IF u = NoUrl
          THEN /\ Fail(p, "no_download_url",
                       [kind |-> "no_download_url", tool |-> t, platform |-> host])
               /\ UNCHANGED <<envVars, fsVars, active, runs, loaded, newSums, toolIdx,
                              secIdx, entryIdx, tempFile, tempLive, sha, histVars, xVars, runVars, tplVars>>
          ELSE IF SidecarMatches(p, t, u)
          THEN /\ UNCHANGED fsVars
               /\ NextTool(p)
               /\ AddEffects(p, SidecarEffects(p, t, u))
               /\ UNCHANGED <<envVars, active, runs, result, error, loaded, newSums,
                              entryIdx, tempFile, tempLive, sha, prevResult,
                              loadedAtStart, fileAtStart, cacheAtStart, dl, ledgerReads,
                              ledgerWrites, xVars, runVars, tplVars>>
          ELSE /\ pc' = [pc EXCEPT ![p] = "prepare"]
               /\ AddEffects(p, SidecarEffects(p, t, u))
               /\ UNCHANGED <<envVars, fsVars, active, runs, result, error, loaded,
                              newSums, toolIdx, secIdx, entryIdx, tempFile, tempLive,
                              sha, prevResult, loadedAtStart, fileAtStart, cacheAtStart,
                              cacheAtSec, dl, ledgerReads, ledgerWrites, xVars, runVars, tplVars>>

\* variant: an existing cache directory is kept as it is
PreparedDirKept(dir) == IF dir.exists THEN dir ELSE EmptyDir

\* lines 91-99: the temp directory is created, the cache directory is deleted
\* if present and recreated empty, all before the download
PreparedDir(dir) == EmptyDir

download_tool_prepare(p) ==
    /\ pc[p] = "prepare"
    /\ LET t == CurTool(p)
       IN /\ cache' = [cache EXCEPT ![t] = PreparedDir(cache[t])]
          /\ AddEffects(p, (IF cache[t].exists THEN {<<"delete_dir", t>>} ELSE {})
                             \cup {<<"create_dir", t>>})
    /\ tempLive' = [tempLive EXCEPT ![p] = @ + 1]
    /\ pc' = [pc EXCEPT ![p] = "download"]
    /\ UNCHANGED <<envVars, ledgerFile, active, runs, result, error, loaded, newSums,
                   toolIdx, secIdx, entryIdx, tempFile, sha, prevResult, loadedAtStart,
                   fileAtStart, cacheAtStart, cacheAtSec, dl, ledgerReads, ledgerWrites,
                   xVars, runVars, tplVars>>

\* lines 109-124: the ledger consulted for the expected digest is the one
\* loaded at workspace creation (sha512sums), not new_sha512sums
ExpectedSums(p) == loaded[p]

\* variant: a differing digest replaces the entry instead of failing
ReconcileOverwrite(sums, u, d) ==
    IF u \in DOMAIN sums /\ d = sums[u] THEN "verified" ELSE "record"

\* lines 109-124: digest reconciliation
Reconcile(sums, u, d) ==
    IF u \in DOMAIN sums
    THEN IF d # sums[u] THEN "mismatch" ELSE "verified"
    ELSE "record"

\* variant: the message reports the computed digest in both places
MismatchErrorActualTwice(t, expected, actual) ==
    [kind |-> "checksum_mismatch", tool |-> t, expected |-> actual, actual |-> actual]

\* the error of lines 111-116: tool name, expected and actual digest
MismatchError(t, expected, actual) ==
    [kind |-> "checksum_mismatch", tool |-> t, expected |-> expected, actual |-> actual]

\* lines 100-124: download, hash, reconcile with the ledger
download_tool_download(p) ==
    /\ pc[p] = "download"
    /\ LET t == CurTool(p)
           u == CurUrl(p)
           c == remote[u]
           d == compute_sha512(c)
       IN /\ tempFile' = [tempFile EXCEPT ![p] = c]
          /\ sha' = [sha EXCEPT ![p] = d]
          /\ dl' = [dl EXCEPT ![p] = @ \cup {[url |-> u, content |-> c, pass |-> "host",
                                              known |-> u \in DOMAIN newSums[p],
                                              tool |-> t]}]
          /\ AddEffects(p, {<<"download", t>>})
          /\ LET outcome == Reconcile(ExpectedSums(p), u, d)
             IN CASE outcome = "mismatch" ->
                       /\ Fail(p, "checksum_mismatch",
                               MismatchError(t, ExpectedSums(p)[u], d))
                       /\ UNCHANGED newSums
                  [] outcome = "verified" ->
                       /\ pc' = [pc EXCEPT ![p] = "replace"]
                       /\ UNCHANGED <<newSums, result, error>>
                  [] OTHER ->
                       /\ newSums' = [newSums EXCEPT ![p] = Put(@, u, d)]
                       /\ pc' = [pc EXCEPT ![p] = "replace"]
                       /\ UNCHANGED <<result, error>>
    /\ UNCHANGED <<envVars, fsVars, active, runs, loaded, toolIdx, secIdx, entryIdx,
                   tempLive, prevResult, loadedAtStart, fileAtStart, cacheAtStart,
                   cacheAtSec, ledgerReads, ledgerWrites, xVars, runVars, tplVars>>

\* lines 126-129: delete the cache directory, pick the extractor
\* (remove_dir_all fails on a directory that does not exist;
\*  FileType::Other is todo!(), a panic)
download_tool_replace(p) ==
    /\ pc[p] = "replace"
    /\ LET t == CurTool(p)
           u == CurUrl(p)
       IN IF ~cache[t].exists
          THEN /\ Fail(p, "io_error", [kind |-> "io_error", tool |-> t])
               /\ UNCHANGED <<cache, effects, entryIdx>>
          ELSE LET extractor == extract_tool(get_file_type_from_url(UrlText(u)))
               IN /\ cache' = [cache EXCEPT ![t] = AbsentDir]
                  /\ IF extractor = "todo"
                     THEN /\ Fail(p, "panic", [kind |-> "panic", tool |-> t])
                          /\ AddEffects(p, {<<"delete_dir", t>>})
                          /\ UNCHANGED entryIdx
                     ELSE /\ pc' = [pc EXCEPT ![p] = "extract"]
                          /\ AddEffects(p, {<<"delete_dir", t>>, <<extractor, t>>})
                          /\ entryIdx' = [entryIdx EXCEPT ![p] = 1]
                          /\ UNCHANGED <<result, error>>
    /\ UNCHANGED <<envVars, ledgerFile, active, runs, loaded, newSums, toolIdx, secIdx,
                   tempFile, tempLive, sha, prevResult, loadedAtStart, fileAtStart,
                   cacheAtStart, cacheAtSec, dl, ledgerReads, ledgerWrites, xVars, runVars, tplVars>>

\* one iteration of the extraction loop: create_directory_all of the parent,
\* create_file, copy
extract_entry(p) ==
    /\ pc[p] = "extract"
    /\ LET t == CurTool(p)
           e == EntryOrder[entryIdx[p]]
       IN /\ cache' = [cache EXCEPT ![t] =
                         [exists |-> TRUE,
                          files |-> [cache[t].files EXCEPT ![e] = tempFile[p]],
                          sidecar |-> cache[t].sidecar]]
          /\ AddEffects(p, {<<"extract", t>>}
                             \cup (IF cache[t].exists THEN {} ELSE {<<"create_dir", t>>}))
    /\ entryIdx' = [entryIdx EXCEPT ![p] = @ + 1]
    /\ pc' = [pc EXCEPT ![p] = IF entryIdx[p] = Len(EntryOrder) THEN "finish" ELSE "extract"]
    /\ UNCHANGED <<envVars, ledgerFile, active, runs, result, error, loaded, newSums,
                   toolIdx, secIdx, tempFile, tempLive, sha, prevResult, loadedAtStart,
                   fileAtStart, cacheAtStart, cacheAtSec, dl, ledgerReads, ledgerWrites,
                   xVars, runVars, tplVars>>

\* variant: the marker is created but nothing is written to it
SidecarContentEmpty(p) == None

\* the digest written to the sidecar marker (line 134)
SidecarContent(p) == sha[p]

\* lines 131-135: delete the temp directory, write the sidecar marker
\* (File::create fails when the directory does not exist)
download_tool_finish(p) ==
    /\ pc[p] = "finish"
    /\ tempLive' = [tempLive EXCEPT ![p] = @ - 1]
    /\ LET t == CurTool(p)
       IN IF ~cache[t].exists
          THEN /\ Fail(p, "io_error", [kind |-> "io_error", tool |-> t])
               /\ UNCHANGED <<cache, effects, toolIdx, secIdx, cacheAtSec>>
          ELSE /\ cache' = [cache EXCEPT ![t].sidecar = SidecarContent(p)]
               /\ AddEffects(p, {<<"sidecar_write", t>>})
               /\ NextTool(p)
               /\ UNCHANGED <<result, error>>
    /\ UNCHANGED <<envVars, ledgerFile, active, runs, loaded, newSums, entryIdx,
                   tempFile, sha, prevResult, loadedAtStart, fileAtStart, cacheAtStart,
                   dl, ledgerReads, ledgerWrites, xVars, runVars, tplVars>>

----------------------------------------------------------------------------
(* run_download_task: secondary pass and save *)

\* variant: the pass downloads every declared URL
NeedsChecksumAlways(sums, k) == SlotDeclared(k)

\* line 30: the pass downloads a declared URL only if new_sha512sums lacks it
NeedsChecksum(sums, k) == SlotDeclared(k) /\ SlotUrl(k) \notin DOMAIN sums

\* the first slot at or after k that the secondary pass downloads
RECURSIVE NextMissing(_, _)
NextMissing(sums, k) ==
    IF k > NSlots THEN k
    ELSE IF NeedsChecksum(sums, k) THEN k
    ELSE NextMissing(sums, k + 1)

\* lines 31-43: temp directory, download, hash, record
secondary_download(p) ==
    /\ pc[p] = "sec"
    /\ LET k == NextMissing(newSums[p], secIdx[p])
       IN /\ k <= NSlots
          /\ LET u == SlotUrl(k)
                 c == remote[u]
             IN /\ secIdx' = [secIdx EXCEPT ![p] = k]
                /\ tempFile' = [tempFile EXCEPT ![p] = c]
                /\ dl' = [dl EXCEPT ![p] = @ \cup {[url |-> u, content |-> c, pass |-> "sec",
                                                    known |-> u \in DOMAIN newSums[p],
                                                    tool |-> SlotTool(k)]}]
                /\ newSums' = [newSums EXCEPT ![p] = Put(@, u, compute_sha512(c))]
                /\ AddEffects(p, {<<"download", "-">>})
    /\ tempLive' = [tempLive EXCEPT ![p] = @ + 1]
    /\ pc' = [pc EXCEPT ![p] = "sec_rm"]
    /\ UNCHANGED <<envVars, fsVars, active, runs, result, error, loaded, toolIdx,
                   entryIdx, sha, prevResult, loadedAtStart, fileAtStart, cacheAtStart,
                   cacheAtSec, ledgerReads, ledgerWrites, xVars, runVars, tplVars>>

\* line 44: delete the temp directory
secondary_cleanup(p) ==
    /\ pc[p] = "sec_rm"
    /\ tempLive' = [tempLive EXCEPT ![p] = @ - 1]
    /\ secIdx' = [secIdx EXCEPT ![p] = @ + 1]
    /\ pc' = [pc EXCEPT ![p] = "sec"]
    /\ UNCHANGED <<envVars, fsVars, active, runs, result, error, loaded, newSums,
                   toolIdx, entryIdx, tempFile, sha, histVars, xVars, runVars, tplVars>>

\* variant: the ledger is saved unconditionally
LedgerAlwaysSaved(p) == TRUE

\* line 48: the ledger is saved only if it changed
LedgerChanged(p) == newSums[p] # loaded[p]

\* lines 48-52, reached when the secondary pass has nothing left to download
run_download_task_save(p) ==
    /\ pc[p] = "sec"
    /\ NextMissing(newSums[p], secIdx[p]) > NSlots
    /\ IF LedgerChanged(p)
       THEN /\ loaded' = [loaded EXCEPT ![p] = newSums[p]]
            /\ ledgerFile' = save_checksums(newSums[p])
            /\ ledgerWrites' = [ledgerWrites EXCEPT ![p] = @ + 1]
            /\ AddEffects(p, {<<"ledger_write", "-">>})
       ELSE UNCHANGED <<loaded, ledgerFile, ledgerWrites, effects>>
    /\ pc' = [pc EXCEPT ![p] = "idle"]
    /\ result' = [result EXCEPT ![p] = "ok"]
    /\ UNCHANGED <<envVars, cache, active, runs, error, newSums, toolIdx, secIdx,
                   entryIdx, tempFile, tempLive, sha, prevResult, loadedAtStart,
                   fileAtStart, cacheAtStart, cacheAtSec, dl, ledgerReads, xVars, runVars, tplVars>>

----------------------------------------------------------------------------
(* Interruption: the process dies between two steps of run_download_task *)

\* a file that was created and not written to the end
Torn == "torn"

\* the sidecar marker after File::create (download_task.rs line 133) and
\* before write_all (line 134)
EmptyMarker == ""

\* what the interrupted step leaves on disk: nothing new; in the extraction
\* loop a file created and not copied; in lines 133-134 a marker created and
\* not written; in save_checksums a ledger file created and not written
Interrupted(p) ==
    LET t == CurTool(p)
    IN \/ UNCHANGED fsVars
       \/ /\ pc[p] = "extract"
          /\ cache' = [cache EXCEPT ![t] =
                            [exists |-> TRUE,
                             files |-> [cache[t].files EXCEPT ![EntryOrder[entryIdx[p]]] = Torn],
                             sidecar |-> cache[t].sidecar]]
          /\ UNCHANGED ledgerFile
       \/ /\ pc[p] = "finish"
          /\ cache[t].exists
          /\ cache' = [cache EXCEPT ![t].sidecar = EmptyMarker]
          /\ UNCHANGED ledgerFile
       \/ /\ pc[p] = "sec"
          /\ NextMissing(newSums[p], secIdx[p]) > NSlots
          /\ LedgerChanged(p)
          /\ ledgerFile' = TruncatedLedger
          /\ UNCHANGED cache

\* the process is killed; its next invocation starts from what is on disk
Crash(p) ==
    /\ pc[p] # "idle"
    /\ Interrupted(p)
    /\ Fail(p, "interrupted", [kind |-> "interrupted"])
    /\ UNCHANGED <<envVars, active, runs, loaded, newSums, toolIdx, secIdx, entryIdx,
                   tempFile, tempLive, sha, histVars, xVars, runVars, tplVars>>

----------------------------------------------------------------------------
(* Environment: the content served for a URL changes *)

RemoteChange ==
    /\ remoteChanges < MaxRemoteChanges
    /\ \E u \in ManifestUrls(manifest), c \in Contents :
          /\ remote[u] # c
          /\ remote' = [remote EXCEPT ![u] = c]
    /\ remoteChanges' = remoteChanges + 1
    /\ UNCHANGED <<manifest, host, args, hostEnv, child, fsVars, procVars, histVars,
                   xVars, runVars, tplVars>>

----------------------------------------------------------------------------
(* Specifications of the pipeline: one process, and concurrent processes *)

NextConc ==
    \/ \E p \in active : create_workspace(p)
    \/ \E p \in active : download_tool_check(p)
    \/ \E p \in active : download_tool_prepare(p)
    \/ \E p \in active : download_tool_download(p)
    \/ \E p \in active : download_tool_replace(p)
    \/ \E p \in active : extract_entry(p)
    \/ \E p \in active : download_tool_finish(p)
    \/ \E p \in active : secondary_download(p)
    \/ \E p \in active : secondary_cleanup(p)
    \/ \E p \in active : run_download_task_save(p)

Next ==
    \/ \E p \in active : create_workspace(p)
    \/ \E p \in active : download_tool_check(p)
    \/ \E p \in active : download_tool_prepare(p)
    \/ \E p \in active : download_tool_download(p)
    \/ \E p \in active : download_tool_replace(p)
    \/ \E p \in active : extract_entry(p)
    \/ \E p \in active : download_tool_finish(p)
    \/ \E p \in active : secondary_download(p)
    \/ \E p \in active : secondary_cleanup(p)
    \/ \E p \in active : run_download_task_save(p)
    \/ RemoteChange

Spec == Init /\ [][Next]_vars
SpecConc == InitConc /\ [][NextConc]_vars

\* one process whose runs can be interrupted between any two steps
NextCrash ==
    \/ \E p \in active : create_workspace(p)
    \/ \E p \in active : download_tool_check(p)
    \/ \E p \in active : download_tool_prepare(p)
    \/ \E p \in active : download_tool_download(p)
    \/ \E p \in active : download_tool_replace(p)
    \/ \E p \in active : extract_entry(p)
    \/ \E p \in active : download_tool_finish(p)
    \/ \E p \in active : secondary_download(p)
    \/ \E p \in active : secondary_cleanup(p)
    \/ \E p \in active : run_download_task_save(p)
    \/ \E p \in active : Crash(p)
    \/ RemoteChange

SpecCrash == Init /\ [][NextCrash]_vars

TypeOK ==
    /\ host \in Hosts
    /\ \A p \in Procs : pc[p] \in {"idle", "host", "prepare", "download", "replace",
                                   "extract", "finish", "sec", "sec_rm"}
    /\ \A p \in Procs : tempLive[p] \in 0..(2 * MaxRuns)

----------------------------------------------------------------------------
(* LockGuard and run_command *)

\* the loop bound of LockGuard::new
LockAttempts == 60

\* the executable of the command: the first word of its command string
BinaryName == <<"lsd">>

\* the file each archive entry is extracted to, in the archives served for
\* the host platform, as <<name, extension>>
EntryFile(c, e) ==
    IF host = "windows"
    THEN CASE c = "c1" /\ e = "e1" -> <<BinaryName, ".cmd">>
           [] c = "c1" /\ e = "e2" -> <<BinaryName, ".bat">>
           [] c = "c2" /\ e = "e1" -> <<BinaryName, ".exe">>
           [] OTHER               -> <<BinaryName, ".bat">>
    ELSE IF e = "e1" /\ c = "c1" THEN <<BinaryName, "">> ELSE <<<<"README">>, "">>

\* variant: the batch extensions are tried before .exe
get_executable_extensions_exe_last(platform) ==
    IF platform = "windows" THEN <<".bat", ".cmd", ".exe">> ELSE <<"">>

\* DownloadPlatform::get_executable_extensions
get_executable_extensions(platform) ==
    CASE platform = "windows" -> <<".exe", ".bat", ".cmd">>
      [] platform = "linux"   -> <<"">>
      [] OTHER                -> <<"">>

\* format!("{binary}{extension}") joined to the tool's cache directory
Candidate(t, binary, extension) == [tool |-> t, file |-> <<binary, extension>>]

\* Adapter::file_exists on a candidate of a cache directory
file_exists(candidate) ==
    LET dir == cache[candidate.tool]
    IN /\ dir.exists
       /\ \E e \in Entries :
             dir.files[e] # None /\ EntryFile(dir.files[e], e) = candidate.file

\* the commands of the manifest belong to the first tool
CommandTools == {"t1"}

\* Adapter::try_lock: TRUE iff the lock is free, and then p holds it
try_lock(p) == lock = None
\* Adapter::unlock: the lock after p's call
unlock(p) == IF lock = p THEN None ELSE lock

SetCmd(p, rec) == cmd' = [cmd EXCEPT ![p] = rec]

\* ToolToolRunnerInitial::run: the process exits with 1 when run_inner
\* returned an error, and with 0 otherwise
ProcessExit(returned) == IF returned = "err" THEN 1 ELSE 0

\* run_command returns the error: the run is over
Failed(rec, kind, cause) ==
    [rec EXCEPT !.rpc = "done",
                !.outcome = kind,
                !.failure = [kind |-> kind, command |-> rec.command_name,
                             tool |-> rec.tool, binary |-> rec.binary_name,
                             extensions |-> IF kind = "binary_not_found"
                                            THEN get_executable_extensions(host)
                                            ELSE <<>>,
                             cause |-> cause],
                !.exit = ProcessExit("err"),
                !.trace = Append(rec.trace, "Failed")]

\* ToolToolRunnerInitial::run_command lines 129-133: run_command is called
\* when run_download_task returned Ok.
\* run_command lines 13-16: the program name is removed, the next argument is
\* the command name, the rest are the user's arguments
run_command_begin(p) ==
    /\ pc[p] = "idle"
    /\ result[p] = "ok"
    /\ cmd[p].rpc = "none"
    /\ SetCmd(p, [cmd[p] EXCEPT !.rpc = "resolve",
                                !.command_name = args[2],
                                !.command_args = SubSeq(args, 3, Len(args)),
                                !.trace = <<"Resolving">>])
    /\ UNCHANGED <<envVars, fsVars, procVars, histVars, xVars, lock, tplVars>>

\* run_command lines 17-28: the command's tool, the extensions, the tokens of
\* the command string, the tool path
run_command_resolve(p) ==
    /\ cmd[p].rpc = "resolve"
    /\ LET found == find_command(cmd[p].command_name)
           parsed == shellish_parse(command_string(cmd[p].command_name))
       IN IF ~found.ok
          THEN SetCmd(p, Failed(cmd[p], "no_tool_for_command", <<>>))
          ELSE IF ~parsed.ok
          THEN SetCmd(p, Failed([cmd[p] EXCEPT !.tool = found.tool], "parse_error", <<>>))
          ELSE SetCmd(p, [cmd[p] EXCEPT !.rpc = "try_lock",
                                       !.tool = found.tool,
                                       !.binary_name = Head(parsed.tokens),
                                       !.parsed_command = Tail(parsed.tokens),
                                       !.trace = Append(@, "LocatingBinary")])
    /\ UNCHANGED <<envVars, fsVars, procVars, histVars, xVars, lock, tplVars>>

\* variant: the guard is returned whatever try_lock said
LockAcquiredAnyway(locked) == TRUE

\* line 20: the guard is returned iff try_lock returned true
LockAcquired(locked) == locked

\* lines 19-22: one try_lock call of the loop
LockGuard_new_try(p) ==
    /\ cmd[p].rpc = "try_lock"
    /\ LET locked == try_lock(p)
       IN /\ lock' = IF locked THEN p ELSE lock
          /\ IF LockAcquired(locked)
             THEN SetCmd(p, [cmd[p] EXCEPT !.tryLocks = @ + 1, !.acquired = @ + 1,
                                          !.rpc = "lookup", !.extIdx = 1])
             ELSE SetCmd(p, [cmd[p] EXCEPT !.tryLocks = @ + 1, !.rpc = "sleep"])
    /\ UNCHANGED <<envVars, fsVars, procVars, histVars, xVars, tplVars>>

\* variant: the flag is never set
HasMessagedNever(printed) == FALSE

\* line 25: has_messaged after the notice was printed
HasMessaged(printed) == TRUE

\* variant: no sleep after the last failed attempt
SleepsUnlessLast(attempt) == attempt < LockAttempts

\* line 27: the loop sleeps after every failed attempt
SleepsAfterFailure(attempt) == TRUE

\* lines 23-29: after a failed attempt: the notice once, the sleep, and the
\* timeout error when the loop is exhausted
LockGuard_new_sleep(p) ==
    /\ cmd[p].rpc = "sleep"
    /\ LET attempt == cmd[p].attempts + 1
           printed == ~cmd[p].has_messaged
           slept == [cmd[p] EXCEPT
                       !.prints = IF printed THEN @ + 1 ELSE @,
                       !.has_messaged = IF printed THEN HasMessaged(printed) ELSE @,
                       !.sleeps = IF SleepsAfterFailure(attempt) THEN @ + 1 ELSE @,
                       !.attempts = attempt,
                       !.rpc = "try_lock"]
       IN IF attempt = LockAttempts
          THEN SetCmd(p, Failed(slept, "lock_timeout", <<>>))
          ELSE SetCmd(p, slept)
    /\ UNCHANGED <<envVars, fsVars, procVars, histVars, xVars, lock, tplVars>>

\* lines 30-42: one iteration of the extension loop; file_exists answers, or
\* fails with an I/O error
run_command_lookup(p) ==
    /\ cmd[p].rpc = "lookup"
    /\ LET extensions == get_executable_extensions(host)
           extension == extensions[cmd[p].extIdx]
           candidate == Candidate(cmd[p].tool, cmd[p].binary_name, extension)
           last == cmd[p].extIdx = Len(extensions)
           seen(answer) == Append(cmd[p].checked,
                                  [extension |-> extension, locked |-> lock = p,
                                   answer |-> answer])
       IN \E io \in {"ok", "err"} :
             IF io = "err"
             THEN SetCmd(p, [cmd[p] EXCEPT !.checked = seen("err"),
                                          !.errors = Append(@, <<"io_error", extension>>),
                                          !.extIdx = IF last THEN @ ELSE @ + 1,
                                          !.rpc = IF last THEN "drop" ELSE @])
             ELSE IF file_exists(candidate)
             THEN SetCmd(p, [cmd[p] EXCEPT !.checked = seen("true"), !.binary = extension,
                                          !.rpc = "drop"])
             ELSE SetCmd(p, [cmd[p] EXCEPT !.checked = seen("false"),
                                          !.extIdx = IF last THEN @ ELSE @ + 1,
                                          !.rpc = IF last THEN "drop" ELSE @])
    /\ UNCHANGED <<envVars, fsVars, procVars, histVars, xVars, lock, tplVars>>

\* variant: the guard lives until run_command returns
DropPointAtReturn == "at_return"

\* line 43: the guard is dropped right after the extension loop
DropPoint == "after_lookup"

\* variant: dropping the guard does not call unlock
LockGuard_drop_forgets(p) ==
    [lock |-> lock, unlocks |-> cmd[p].unlocks, badUnlocks |-> cmd[p].badUnlocks]

\* Drop for LockGuard: one unlock call
LockGuard_drop(p) ==
    [lock |-> unlock(p), unlocks |-> cmd[p].unlocks + 1,
     badUnlocks |-> cmd[p].badUnlocks + (IF lock = p THEN 0 ELSE 1)]

\* variant: the command goes on to execute without a candidate
BinaryFoundAlways(binary_path_maybe) == TRUE

\* line 44: let Some(binary_path) = binary_path_maybe
BinaryFound(binary_path_maybe) == binary_path_maybe # None

\* variant: the last I/O error is the one returned
SurfacedErrorLast(errors) == errors[Len(errors)]

\* line 53: errors.remove(0)
SurfacedError(errors) == Head(errors)

\* lines 43-60: drop the guard; without a binary, fail with the first I/O
\* error or with the not-found error
run_command_drop(p) ==
    /\ cmd[p].rpc = "drop"
    /\ LET found == BinaryFound(cmd[p].binary)
           dropped == LockGuard_drop(p)
           drops == DropPoint = "after_lookup" \/ ~found
           unlocked == [cmd[p] EXCEPT
                          !.unlocks = IF drops THEN dropped.unlocks ELSE @,
                          !.badUnlocks = IF drops THEN dropped.badUnlocks ELSE @]
       IN /\ lock' = IF drops THEN dropped.lock ELSE lock
          /\ IF found
             THEN SetCmd(p, [unlocked EXCEPT !.rpc = "execute",
                                            !.trace = Append(@, "Executing")])
             ELSE IF cmd[p].errors = <<>>
             THEN SetCmd(p, Failed(unlocked, "binary_not_found", <<>>))
             ELSE SetCmd(p, Failed(unlocked, "io_error", SurfacedError(cmd[p].errors)))
    /\ UNCHANGED <<envVars, fsVars, procVars, histVars, xVars, tplVars>>

\* variant: the user's arguments come before the command's own
AssembleArgsUserFirst(parsed_command, command_args) == command_args \o parsed_command

\* lines 61-62: the tokens after the binary, then the user's arguments
AssembleArgs(parsed_command, command_args) == parsed_command \o command_args

\* line 66: the host variables a Windows child inherits
InheritedEnvVars == <<"SYSTEMDRIVE", "SYSTEMROOT", "TEMP", "TMP", "WINDIR", "OS">>

\* line 65
PathExt == <<"PATHEXT", ".COM;.EXE;.BAT;.CMD">>

\* line 69: host_env.iter().find(|(name, _)| name == env_name)
RECURSIVE FindEnv(_, _)
FindEnv(host_env, env_name) ==
    IF host_env = <<>> THEN <<>>
    ELSE IF Head(host_env)[1] = env_name THEN <<Head(host_env)>>
    ELSE FindEnv(Tail(host_env), env_name)

\* lines 67-77: the allow-listed variables the host has, in allow-list order
RECURSIVE Inherited(_, _)
Inherited(host_env, names) ==
    IF names = <<>> THEN <<>>
    ELSE FindEnv(host_env, Head(names)) \o Inherited(host_env, Tail(names))

\* variant: the whole host environment is forwarded on Windows
AssembleEnvWholeHost(platform, host_env, tool_env) ==
    IF platform = "windows" THEN <<PathExt>> \o host_env \o tool_env ELSE tool_env

\* lines 63-79: the environment of the request
AssembleEnv(platform, host_env, tool_env) ==
    IF platform = "windows"
    THEN <<PathExt>> \o Inherited(host_env, InheritedEnvVars) \o tool_env
    ELSE tool_env

\* RealAdapter::execute: the child starts from a cleared environment and gets
\* the pairs of the request, a later pair replacing an earlier one of the same
\* name
ChildEnvironment(request_env) ==
    {pair \in {request_env[i] : i \in 1..Len(request_env)} :
        \A j \in 1..Len(request_env) :
            request_env[j][1] = pair[1] =>
                \E i \in j..Len(request_env) : request_env[i] = pair}

\* the text of a path below a tool's cache directory
PathText(candidate) == <<candidate.tool, "/">> \o candidate.file[1] \o <<candidate.file[2]>>

\* args.join(" ")
RECURSIVE JoinArgs(_)
JoinArgs(list) ==
    IF list = <<>> THEN <<>>
    ELSE IF Len(list) = 1 THEN list[1]
    ELSE list[1] \o <<" ">> \o JoinArgs(Tail(list))

Message(kind, text) == [kind |-> kind, text |-> text]

\* variant: the failure is reported whatever the exit code
ReportsFailureAlways(exit_code) == TRUE

\* line 95
ReportsFailure(exit_code) == exit_code # 0

\* lines 95-109: the messages printed for a failed command
FailureReport(command_name, exit_code, binary_path, arguments, env) ==
    IF ReportsFailure(exit_code)
    THEN <<Message("failed", command_name \o <<ToString(exit_code)>>),
           Message("executed", PathText(binary_path) \o <<" ">> \o JoinArgs(arguments)),
           Message("environment", <<>>)>>
         \o [i \in 1..Len(env) |-> Message("env", <<env[i][1], "=", env[i][2]>>)]
    ELSE <<>>

\* std::time::Duration, held in milliseconds
from_secs(secs) == secs * 1000
as_secs(duration) == duration \div 1000

\* variant: the notice is printed from 4 seconds on
DurationReportFromThreshold(start_time, end_time) ==
    LET duration == end_time - start_time
    IN IF duration >= from_secs(4)
       THEN <<Message("took", <<ToString(as_secs(duration))>>)>>
       ELSE <<>>

\* lines 88-94: the notice printed for a command that took more than 4
\* seconds, with the whole seconds of the duration
DurationReport(start_time, end_time) ==
    LET duration == end_time - start_time
    IN IF duration > from_secs(4)
       THEN <<Message("took", <<ToString(as_secs(duration))>>)>>
       ELSE <<>>

\* lines 61-110: execute the binary found and report a non-zero exit code;
\* the command returns Ok, or the error Adapter::execute returned
run_command_execute(p) ==
    /\ cmd[p].rpc = "execute"
    /\ LET dropped == LockGuard_drop(p)
           drops == DropPoint # "after_lookup"
           binary_path == Candidate(cmd[p].tool, cmd[p].binary_name, cmd[p].binary)
           arguments == AssembleArgs(cmd[p].parsed_command, cmd[p].command_args)
           env == AssembleEnv(host, hostEnv, ToolEnv(cmd[p].tool))
           called == [cmd[p] EXCEPT
                          !.executed = binary_path,
                          !.request = [binary_path |-> binary_path, args |-> arguments,
                                       env |-> env],
                          !.executes = @ + 1,
                          !.lockedAtExecute = lock = p,
                          !.unlocks = IF drops THEN dropped.unlocks ELSE @,
                          !.badUnlocks = IF drops THEN dropped.badUnlocks ELSE @]
       IN /\ lock' = IF drops THEN dropped.lock ELSE lock
          /\ IF ~child.spawns
             THEN SetCmd(p, Failed(called, "execute_error", <<>>))
             ELSE SetCmd(p, [called EXCEPT
                               !.exit_code = child.exit_code,
                               !.messages = DurationReport(child.start_time, child.end_time)
                                            \o FailureReport(cmd[p].command_name,
                                                             child.exit_code, binary_path,
                                                             arguments, env),
                               !.rpc = "done",
                               !.outcome = "ok",
                               !.exit = ProcessExit("ok"),
                               !.trace = Append(@, "Reported")])
    /\ UNCHANGED <<envVars, fsVars, procVars, histVars, xVars, tplVars>>

\* a cache directory some invocation is still extracting into
PartialDir(c) == [exists |-> TRUE,
                  files |-> [e \in Entries |-> IF e = "e1" THEN c ELSE None],
                  sidecar |-> None]

\* concurrent invocations that have all passed run_download_task: the cache
\* is as earlier and concurrent invocations left it
InitRun ==
    /\ InitInvocation(Procs,
                      {m \in Manifests : m["t2"].default_download_artifact = "u3"},
                      {"linux", "windows"},
                      {save_checksums([u \in {"u1", "u2", "u3"} |-> compute_sha512("c1")])},
                      {[t \in ToolSet |-> IF t \in CommandTools THEN dir ELSE AbsentDir] :
                          dir \in {AbsentDir, EmptyDir, PartialDir("c1"),
                                   ValidDir("c1"), ValidDir("c2")}},
                      "ok")
    /\ XIdle

NextRun ==
    \/ \E p \in active : run_command_begin(p)
    \/ \E p \in active : run_command_resolve(p)
    \/ \E p \in active : LockGuard_new_try(p)
    \/ \E p \in active : LockGuard_new_sleep(p)
    \/ \E p \in active : run_command_lookup(p)
    \/ \E p \in active : run_command_drop(p)
    \/ \E p \in active : run_command_execute(p)

\* run_command of concurrent invocations
SpecRun == InitRun /\ [][NextRun]_vars

\* whole invocations (create_workspace, run_download_task, run_command) of
\* concurrent processes on a Linux host with an empty cache
InitFull ==
    /\ InitPipeline(Procs,
                    {m \in Manifests : m["t2"].default_download_artifact = "u3"},
                    {"linux"},
                    {save_checksums([u \in {"u1"} |-> compute_sha512("c1")])},
                    {[t \in ToolSet |-> AbsentDir]})
    /\ XIdle

NextFull ==
    \/ \E p \in active : create_workspace(p)
    \/ \E p \in active : download_tool_check(p)
    \/ \E p \in active : download_tool_prepare(p)
    \/ \E p \in active : download_tool_download(p)
    \/ \E p \in active : download_tool_replace(p)
    \/ \E p \in active : extract_entry(p)
    \/ \E p \in active : download_tool_finish(p)
    \/ \E p \in active : secondary_download(p)
    \/ \E p \in active : secondary_cleanup(p)
    \/ \E p \in active : run_download_task_save(p)
    \/ \E p \in active : run_command_begin(p)
    \/ \E p \in active : run_command_resolve(p)
    \/ \E p \in active : LockGuard_new_try(p)
    \/ \E p \in active : LockGuard_new_sleep(p)
    \/ \E p \in active : run_command_lookup(p)
    \/ \E p \in active : run_command_drop(p)
    \/ \E p \in active : run_command_execute(p)

SpecFull == InitFull /\ [][NextFull]_vars

\* an invocation outside the processes of the behaviour
OtherInvocation == "other"

\* another invocation's LockGuard::new succeeds
OtherInvocationLocks ==
    /\ lock = None
    /\ lock' = OtherInvocation
    /\ UNCHANGED <<envVars, fsVars, procVars, histVars, xVars, cmd, tplVars>>

\* another invocation drops its guard
OtherInvocationUnlocks ==
    /\ lock = OtherInvocation
    /\ lock' = unlock(OtherInvocation)
    /\ UNCHANGED <<envVars, fsVars, procVars, histVars, xVars, cmd, tplVars>>

\* whole invocations of one process, one after the other, while other
\* invocations take and release the lock
InitInvoke ==
    /\ InitPipeline({"p1"},
                    {m \in Manifests : m["t2"].default_download_artifact = "u3"},
                    {"linux", "windows"},
                    {save_checksums([u \in S |-> compute_sha512("c1")]) :
                        S \in {{"u1"}, {"u1", "u2", "u3"}}},
                    {[t \in ToolSet |-> AbsentDir], [t \in ToolSet |-> ValidDir("c1")]})
    /\ XIdle

NextInvoke ==
    \/ \E p \in active : create_workspace(p)
    \/ \E p \in active : download_tool_check(p)
    \/ \E p \in active : download_tool_prepare(p)
    \/ \E p \in active : download_tool_download(p)
    \/ \E p \in active : download_tool_replace(p)
    \/ \E p \in active : extract_entry(p)
    \/ \E p \in active : download_tool_finish(p)
    \/ \E p \in active : secondary_download(p)
    \/ \E p \in active : secondary_cleanup(p)
    \/ \E p \in active : run_download_task_save(p)
    \/ \E p \in active : run_command_begin(p)
    \/ \E p \in active : run_command_resolve(p)
    \/ \E p \in active : LockGuard_new_try(p)
    \/ \E p \in active : LockGuard_new_sleep(p)
    \/ \E p \in active : run_command_lookup(p)
    \/ \E p \in active : run_command_drop(p)
    \/ \E p \in active : run_command_execute(p)
    \/ OtherInvocationLocks
    \/ OtherInvocationUnlocks

SpecInvoke == InitInvoke /\ [][NextInvoke]_vars

\* whole invocations of one process, one after the other, on every host,
\* with every manifest, ledger file and cache an earlier run can have left
SpecAcquire == Init /\ [][NextInvoke]_vars

\* the invocations of the executor: known commands with and without
\* arguments, a command whose binary is in no archive, a command string with
\* an unterminated quote, an unknown command
ArgLists ==
    {<<ProgramName, <<"lsd">>>>,
     <<ProgramName, <<"lsd">>, <<"-a">>>>,
     <<ProgramName, <<"ll">>, <<"there">>, <<"what", " ", "is">>>>,
     <<ProgramName, <<"bar">>>>,
     <<ProgramName, <<"bad">>>>,
     <<ProgramName, <<"nope">>, <<"there">>>>}

HostEnvs ==
    {<<>>,
     HostPairs(<<"PATH", "TEMP", "OS">>),
     HostPairs(<<"OS", "WINDIR", "TMP", "TEMP", "SYSTEMROOT", "SYSTEMDRIVE", "PATH",
                 "HOME">>)}

\* what Adapter::now returns before and after the execution, in
\* milliseconds since an arbitrary point in the past: no time, exactly 4
\* seconds, a little more than 4 seconds across 5 boundaries of a second, and
\* almost 9 seconds
Clocks == {<<2900, 2900>>, <<2900, 6900>>, <<2900, 7100>>, <<2500, 11499>>}

Children ==
    {[spawns |-> TRUE, exit_code |-> code, start_time |-> clock[1], end_time |-> clock[2]] :
        code \in {0, 19, 255}, clock \in Clocks}
    \cup {[spawns |-> FALSE, exit_code |-> 0, start_time |-> 0, end_time |-> 0]}

\* run_command of one invocation that has passed run_download_task, on every
\* platform, while another invocation may take the lock and keep it
InitExec ==
    /\ InitProcesses({"p1"},
                     {m \in Manifests : m["t2"].default_download_artifact = "u3"},
                     Platforms,
                     {save_checksums([u \in {"u1", "u2", "u3"} |-> compute_sha512("c1")])},
                     {[t \in ToolSet |-> IF t \in CommandTools THEN dir ELSE AbsentDir] :
                         dir \in {AbsentDir, ValidDir("c1"), ValidDir("c2")}},
                     "ok")
    /\ InitInputs(ArgLists, HostEnvs, Children)
    /\ tpl = TplIdle
    /\ expansion = ExpansionIdle
    /\ ledger = LedgerIdle
    /\ XIdle

\* a step of the process
ExecStep ==
    \/ \E p \in active : run_command_begin(p)
    \/ \E p \in active : run_command_resolve(p)
    \/ \E p \in active : LockGuard_new_try(p)
    \/ \E p \in active : LockGuard_new_sleep(p)
    \/ \E p \in active : run_command_lookup(p)
    \/ \E p \in active : run_command_drop(p)
    \/ \E p \in active : run_command_execute(p)

NextExec ==
    \/ \E p \in active : run_command_begin(p)
    \/ \E p \in active : run_command_resolve(p)
    \/ \E p \in active : LockGuard_new_try(p)
    \/ \E p \in active : LockGuard_new_sleep(p)
    \/ \E p \in active : run_command_lookup(p)
    \/ \E p \in active : run_command_drop(p)
    \/ \E p \in active : run_command_execute(p)
    \/ OtherInvocationLocks

SpecExec == InitExec /\ [][NextExec]_vars

\* the process is scheduled as long as it has a step to take
SpecExecFair == SpecExec /\ WF_vars(ExecStep)

----------------------------------------------------------------------------
(* Properties of the acquisition pipeline *)

Running(p) == p \in active /\ result[p] # None

\* C1: when the ledger holds D1 for the host artifact's URL and the download
\* hashes to D2 # D1, download_tool fails with a checksum-mismatch error naming
\* the tool and reporting D1 as expected and D2 as actual; the run stops with
\* no extraction and no sidecar write for the tool, and the ledger is unchanged
\* in memory and on disk.
C1_MismatchAborts ==
    \A p \in active :
        result[p] = "checksum_mismatch" =>
            LET t == CurTool(p)
                u == CurUrl(p)
            IN /\ u \in DOMAIN loadedAtStart[p]
               /\ error[p].kind = "checksum_mismatch"
               /\ error[p].tool = t
               /\ error[p].expected = loadedAtStart[p][u]
               /\ error[p].actual = compute_sha512(tempFile[p])
               /\ error[p].expected # error[p].actual
               /\ pc[p] = "idle"
               /\ <<"extract", t>> \notin effects[p]
               /\ <<"sidecar_write", t>> \notin effects[p]
               /\ <<"ledger_write", "-">> \notin effects[p]
               /\ loaded[p] = loadedAtStart[p]
               /\ ledgerFile = fileAtStart[p]

C1_Witness ==
    \E p \in active :
        /\ result[p] = "checksum_mismatch"
        /\ <<"download", CurTool(p)>> \in effects[p]

\* C2 (as stated): on a checksum mismatch the payload and the sidecar marker of
\* the tool's cache directory are what they were before the run.
C2_CacheUntouchedOnMismatch ==
    \A p \in active :
        result[p] = "checksum_mismatch" =>
            LET t == CurTool(p)
            IN /\ cache[t].files = cacheAtStart[p][t].files
               /\ cache[t].sidecar = cacheAtStart[p][t].sidecar

\* effects a re-run on a valid cache may have: reading the ledger and the
\* tools' sidecar markers
RerunEffects ==
    {<<"ledger_read", "-">>}
      \cup {<<k, t>> : k \in {"sidecar_exists", "sidecar_read"}, t \in ToolSet}

\* C3 (as stated): a run that follows a successful run downloads nothing,
\* deletes, creates and extracts nothing and does not write the ledger.
C3_RerunIsIdle ==
    \A p \in active :
        (runs[p] >= 2 /\ prevResult[p] = "ok") => effects[p] \subseteq RerunEffects

\* C5 (as stated): after a successful run the ledger holds, for every URL
\* downloaded in the run, the digest of the bytes of every download of it.
C5_LedgerMatchesEveryDownload ==
    \A p \in active :
        (pc[p] = "idle" /\ result[p] = "ok") =>
            \A d \in dl[p] :
                /\ d.url \in DOMAIN loaded[p]
                /\ loaded[p][d.url] = compute_sha512(d.content)

\* C6: no entry of the ledger as loaded is changed or removed by the run, in
\* the working copy, the workspace or the file; a download whose digest differs
\* from a loaded entry ends the run with a checksum mismatch.
C6_LedgerMonotonic ==
    \A p \in active :
        Running(p) =>
            /\ \A u \in DOMAIN loadedAtStart[p] :
                  /\ u \in DOMAIN newSums[p] /\ newSums[p][u] = loadedAtStart[p][u]
                  /\ u \in DOMAIN loaded[p] /\ loaded[p][u] = loadedAtStart[p][u]
                  /\ u \in DOMAIN load_checksums(ledgerFile)
                  /\ load_checksums(ledgerFile)[u] = loadedAtStart[p][u]
            /\ \A d \in dl[p] :
                  (/\ d.url \in DOMAIN loadedAtStart[p]
                   /\ compute_sha512(d.content) # loadedAtStart[p][d.url])
                     => result[p] = "checksum_mismatch"

C6_Witness ==
    \E p \in active :
        /\ pc[p] = "idle" /\ result[p] = "ok"
        /\ loadedAtStart[p] # EmptyMap
        /\ DOMAIN loaded[p] # DOMAIN loadedAtStart[p]
        /\ \E d \in dl[p] : d.url \in DOMAIN loadedAtStart[p]

\* C7: after a successful run the ledger has a digest for every per-platform
\* URL of every tool; the secondary pass downloads only URLs the ledger lacks,
\* each into a temp directory that is deleted again, and changes no cache
\* directory.
C7_SecondaryPass ==
    \A p \in active :
        /\ (pc[p] = "idle" /\ result[p] = "ok") =>
              \A t \in ToolSet : \A q \in DOMAIN manifest[t].download_urls :
                  /\ manifest[t].download_urls[q] \in DOMAIN loaded[p]
                  /\ manifest[t].download_urls[q] \in DOMAIN load_checksums(ledgerFile)
        /\ \A d \in dl[p] : d.pass = "sec" => ~d.known
        /\ pc[p] = "sec" => tempLive[p] = 0
        /\ pc[p] = "sec_rm" => tempLive[p] = 1
        /\ (pc[p] \in {"sec", "sec_rm"} \/ (pc[p] = "idle" /\ result[p] = "ok"))
              => cache = cacheAtSec[p]

C7_Witness ==
    \E p \in active :
        /\ pc[p] = "idle" /\ result[p] = "ok"
        /\ \E d \in dl[p] : d.pass = "sec"
        /\ \E t \in ToolSet : <<"extract", t>> \in effects[p]

\* C8: the ledger file is read once per run and written at most once, as the
\* last step of the run, and exactly when the in-memory ledger differs from
\* what was loaded.
C8_LedgerReadOnceSavedOnChange ==
    \A p \in active :
        Running(p) =>
            /\ ledgerReads[p] = 1
            /\ ledgerWrites[p] <= 1
            /\ ledgerWrites[p] = 1 => (pc[p] = "idle" /\ result[p] = "ok")
            /\ (ledgerWrites[p] = 1) <=> (loaded[p] # loadedAtStart[p])

C8_Witness ==
    \E p \in active :
        /\ pc[p] = "idle" /\ result[p] = "ok"
        /\ ledgerWrites[p] = 1
        /\ ledgerFile # fileAtStart[p]

\* C9: when download_tool returns after a download, the sidecar marker holds
\* the digest computed from the downloaded archive, which is the ledger entry
\* of the URL (the loaded one if the URL was known).
C9_SidecarIsVerifiedDigest ==
    [][\A p \in active :
          (pc[p] = "finish" /\ pc'[p] \in {"host", "sec"}) =>
              LET t == CurTool(p)
                  u == CurUrl(p)
              IN /\ cache'[t].sidecar = compute_sha512(tempFile[p])
                 /\ u \in DOMAIN newSums'[p]
                 /\ newSums'[p][u] = cache'[t].sidecar
                 /\ u \in DOMAIN loadedAtStart[p]
                      => loadedAtStart[p][u] = cache'[t].sidecar]_vars

C9_Witness ==
    \E p \in active : \E t \in ToolSet :
        /\ <<"sidecar_write", t>> \in effects[p]
        /\ SelectArtifact(t) \notin DOMAIN loadedAtStart[p]
        /\ cache[t].sidecar = newSums[p][SelectArtifact(t)]

\* C4 (as stated): whenever a tool's sidecar marker exists and equals the
\* ledger's digest for the tool's artifact URL, the cache directory holds the
\* complete payload of the archive with that digest.
C4_SidecarCertifiesPayload ==
    \A t \in ToolSet :
        LET u == SelectArtifact(t)
        IN (/\ u # NoUrl
            /\ u \in DOMAIN load_checksums(ledgerFile)
            /\ cache[t].sidecar # None
            /\ cache[t].sidecar = load_checksums(ledgerFile)[u])
             => HoldsPayload(cache[t], cache[t].sidecar)

\* the filename suffix each URL of the model is written with
UrlSuffix(u) ==
    CASE u = "u1" -> ".tar.gz"
      [] u = "u2" -> ".zip"
      [] u = "u3" -> ".zip"
      [] u = "u4" -> ".7z"
      [] OTHER    -> None

C13_ArtifactSelection ==
    \A p \in active :
        /\ \A d \in dl[p] :
              d.pass = "host" =>
                  LET tool == manifest[d.tool]
                  IN /\ d.url # NoUrl
                     /\ d.url = IF host \in DOMAIN tool.download_urls
                                THEN tool.download_urls[host]
                                ELSE tool.default_download_artifact
        /\ (Running(p) /\ toolIdx[p] <= Len(Tools)) =>
              LET t == CurTool(p)
                  neither == /\ host \notin DOMAIN manifest[t].download_urls
                             /\ manifest[t].default_download_artifact = NoUrl
              IN /\ result[p] = "no_download_url" <=> (neither /\ pc[p] # "host")
                 /\ result[p] = "no_download_url" =>
                       /\ pc[p] = "idle"
                       /\ error[p] = [kind |-> "no_download_url", tool |-> t,
                                      platform |-> host]
                       /\ \A e \in effects[p] : e[2] # t

C13_Witness ==
    \E p \in active :
        /\ result[p] = "no_download_url"
        /\ CurTool(p) = "t2"
        /\ \E d \in dl[p] : d.tool = "t1" /\ d.pass = "host"

----------------------------------------------------------------------------
(* Properties of LockGuard and run_command *)

\* C14: when try_lock fails k times and then succeeds (0 <= k <= 59),
\* LockGuard::new returns the guard after k+1 try_lock calls and k sleeps; the
\* notice is printed once, after the first failed attempt, when k >= 1 and
\* never when k = 0.
C14_DelayedSuccess ==
    \A p \in active :
        LET c == cmd[p]
            k == c.tryLocks - c.acquired
        IN /\ c.acquired = 1 =>
                 /\ k \in 0..59
                 /\ c.tryLocks = k + 1
                 /\ c.sleeps = k
                 /\ c.prints = IF k >= 1 THEN 1 ELSE 0
                 /\ c.outcome # "lock_timeout"
           /\ c.prints <= 1
           /\ c.prints = 1 <=> c.sleeps >= 1

C14_Witness ==
    \E p \in active :
        /\ cmd[p].acquired = 1
        /\ cmd[p].tryLocks = 60
        /\ cmd[p].prints = 1

\* C15: when try_lock fails 60 times in a row, LockGuard::new fails with the
\* timeout error after exactly 60 try_lock calls, each followed by one sleep;
\* there is no 61st attempt and no unlock.
C15_Timeout ==
    \A p \in active :
        LET c == cmd[p]
        IN /\ c.tryLocks <= 60
           /\ c.sleeps <= c.tryLocks
           /\ c.sleeps >= c.tryLocks - 1
           /\ (c.acquired = 0 /\ c.rpc = "try_lock") => c.sleeps = c.tryLocks
           /\ (c.acquired = 0 /\ c.tryLocks = 60 /\ c.rpc # "sleep") =>
                 c.outcome = "lock_timeout"
           /\ c.outcome = "lock_timeout" =>
                 /\ c.tryLocks = 60
                 /\ c.sleeps = 60
                 /\ c.acquired = 0
                 /\ c.unlocks = 0
                 /\ c.rpc = "done"
                 /\ c.checked = <<>>
                 /\ lock # p

C15_Witness == \E p \in active : cmd[p].outcome = "lock_timeout"

\* C16: a guard that was acquired is released by exactly one unlock before
\* run_command goes on, whether a binary was found, none was found, or
\* file_exists failed; unlock is only called by the process holding the lock.
C16_GuardReleased ==
    \A p \in active :
        LET c == cmd[p]
        IN /\ c.unlocks <= c.acquired
           /\ c.badUnlocks = 0
           /\ c.rpc \in {"execute", "done"} => (c.unlocks = c.acquired /\ lock # p)
           /\ c.rpc \in {"lookup", "drop"} => (c.acquired = 1 /\ c.unlocks = 0)
           /\ c.outcome \in {"ok", "binary_not_found", "io_error"} =>
                 (c.acquired = 1 /\ c.unlocks = 1)

C16_Witness ==
    \E p, q \in active :
        /\ cmd[p].outcome = "io_error" /\ cmd[p].unlocks = 1
        /\ cmd[q].outcome = "ok" /\ cmd[q].unlocks = 1

\* C17: at most one process is between a successful LockGuard::new and the
\* drop of its guard, and that process is the holder of the lock.
C17_MutualExclusion ==
    /\ Cardinality({p \in active : cmd[p].rpc \in {"lookup", "drop"}}) <= 1
    /\ \A p \in active : cmd[p].rpc \in {"lookup", "drop"} => lock = p

C17_Witness ==
    \E p, q \in active :
        /\ cmd[p].rpc = "lookup"
        /\ cmd[q].rpc = "sleep" /\ cmd[q].attempts >= 1

\* the adapter effects that read or change a cache directory
CacheEffects ==
    {<<k, t>> : k \in {"sidecar_exists", "sidecar_read", "delete_dir", "create_dir",
                       "extract", "sidecar_write"}, t \in ToolSet}

\* C18 (as stated): every read or mutation of a cache directory by the
\* pipeline and every binary lookup is made by the process holding the lock,
\* and no cache directory changes while a process is looking up a binary.
C18_CacheAccessUnderLock ==
    [][/\ \A p \in active :
             ((effects'[p] \ effects[p]) \cap CacheEffects # {}) => lock = p
       /\ \A p \in active :
             Len(cmd'[p].checked) > Len(cmd[p].checked) => lock = p
       /\ cache' # cache => \A q \in active : cmd[q].rpc # "lookup"]_vars

\* C19: a process does not hold the lock while it is inside
\* run_download_task (so during none of its downloads), nor when it calls
\* execute.
C19_NoLockDuringDownloadOrExecute ==
    \A p \in active :
        /\ pc[p] # "idle" => lock # p
        /\ cmd[p].rpc = "execute" => lock # p
        /\ cmd[p].executed # NoCandidate => ~cmd[p].lockedAtExecute

C19_Witness ==
    \E p \in active :
        /\ cmd[p].executed # NoCandidate
        /\ dl[p] # {}
        /\ cmd[p].attempts >= 1
        /\ lock = OtherInvocation

\* the order of the candidates' extensions on each platform
ExtensionOrder ==
    IF host = "windows" THEN <<".exe", ".bat", ".cmd">> ELSE <<"">>

----------------------------------------------------------------------------
(* Properties of the executor *)

\* the executable name and the baseline arguments each command string stands
\* for
ExpectedBinary(name) == IF name = <<"bar">> THEN <<"fizz">> ELSE <<"lsd">>
ExpectedBaseline(name) ==
    CASE name = <<"ll">>  -> <<<<"-l">>, <<"a", " ", "b">>>>
      [] name = <<"bar">> -> <<<<"buzz">>>>
      [] OTHER            -> <<>>

\* the lookup of run_command is over and no candidate existed
NoCandidateFound(c) ==
    /\ c.rpc = "done"
    /\ c.acquired = 1
    /\ \A i \in 1..Len(c.checked) : c.checked[i].answer # "true"

\* C21: when no candidate exists, run_command fails with the not-found
\* diagnostic (command, tool, base path, every extension tried) if all checks
\* answered false, and with the first I/O error if some check failed; execute
\* is not called in either case.
C21_NoCandidateDiagnostics ==
    \A p \in active :
        LET c == cmd[p]
            failed == {i \in 1..Len(c.checked) : c.checked[i].answer = "err"}
            first == CHOOSE i \in failed : \A j \in failed : i <= j
        IN NoCandidateFound(c) =>
              /\ c.executes = 0
              /\ c.request = NoRequest
              /\ c.exit = 1
              /\ c.failure.command = args[2]
              /\ c.failure.tool = "t1"
              /\ IF failed = {}
                 THEN /\ c.failure.kind = "binary_not_found"
                      /\ c.failure.binary = ExpectedBinary(args[2])
                      /\ c.failure.extensions = ExtensionOrder
                      /\ Len(c.checked) = Len(ExtensionOrder)
                 ELSE /\ c.failure.kind = "io_error"
                      /\ c.failure.cause = <<"io_error", c.checked[first].extension>>

C21_Witness ==
    \E p \in active :
        /\ NoCandidateFound(cmd[p])
        /\ host = "windows"
        /\ cmd[p].failure.kind = "io_error"
        /\ cmd[p].checked[1].answer = "false"
        /\ cmd[p].checked[2].answer = "err"
        /\ cmd[p].checked[3].answer = "err"

\* C22: the arguments of the executed binary are the tokens of the command
\* string after the first one, in order, followed by the user's arguments
\* after the command name, in order and unchanged; neither the program name
\* nor the command name is passed.
C22_ArgumentList ==
    \A p \in active :
        LET c == cmd[p]
            user == [i \in 1..(Len(args) - 2) |-> args[i + 2]]
        IN c.executes > 0 =>
              /\ c.request.args = ExpectedBaseline(args[2]) \o user
              /\ Len(c.request.args) = Len(ExpectedBaseline(args[2])) + Len(args) - 2
              /\ \A i \in 1..Len(c.request.args) :
                    c.request.args[i] \notin {args[1], args[2]}

C22_Witness ==
    \E p \in active :
        /\ cmd[p].executes = 1
        /\ args[2] = <<"ll">>
        /\ cmd[p].request.args = <<<<"-l">>, <<"a", " ", "b">>, <<"there">>,
                                   <<"what", " ", "is">>>>

\* the names of the host's environment variables
HostNames == {hostEnv[i][1] : i \in 1..Len(hostEnv)}

\* the allow-listed variables the host has, in the order of the allow-list
AllowListed ==
    LET present(name) == name \in HostNames
        names == SelectSeq(<<"SYSTEMDRIVE", "SYSTEMROOT", "TEMP", "TMP", "WINDIR", "OS">>,
                           present)
    IN [i \in 1..Len(names) |-> <<names[i], HostValue(names[i])>>]

DeclaredEnv == <<<<"FROBNIZZ", "nizzle">>, <<"FIZZ", "buzz">>>>

C24_ExitCodeMirrored ==
    \A p \in active :
        LET c == cmd[p]
        IN (c.rpc = "done" /\ c.executes > 0 /\ child.spawns) =>
              /\ c.exit_code # 0 => c.exit = c.exit_code
              /\ c.exit = 0 => c.exit_code = 0

\* the messages of a run other than the notice about its duration
IsReport(message) == message.kind # "took"

\* C25: after a non-zero exit code run_command prints, in this order, the
\* command name with the exit code, the binary path with all arguments, and
\* every pair of the assembled environment; after exit code 0 it prints none
\* of them.
C25_FailureReport ==
    \A p \in active :
        LET c == cmd[p]
            report == SelectSeq(c.messages, IsReport)
            env == c.request.env
        IN (c.rpc = "done" /\ c.executes > 0 /\ child.spawns) =>
              IF child.exit_code # 0
              THEN /\ Len(report) = 3 + Len(env)
                   /\ report[1].kind = "failed"
                   /\ report[1].text = args[2] \o <<ToString(child.exit_code)>>
                   /\ report[2].kind = "executed"
                   /\ report[2].text = PathText(c.request.binary_path) \o <<" ">>
                                           \o JoinArgs(c.request.args)
                   /\ report[3].kind = "environment"
                   /\ \A i \in 1..Len(env) :
                         /\ report[3 + i].kind = "env"
                         /\ report[3 + i].text = <<env[i][1], "=", env[i][2]>>
              ELSE report = <<>>

C25_Witness ==
    \E p \in active :
        /\ cmd[p].rpc = "done"
        /\ cmd[p].exit_code = 19
        /\ host = "windows"
        /\ args[2] = <<"ll">>
        /\ Len(cmd[p].messages) = 8
        /\ cmd[p].messages[2].text = <<"t1", "/", "lsd", ".exe", " ", "-l", " ", "a", " ", "b",
                                       " ", "there", " ", "what", " ", "is">>

\* the runs of the executor's state machine
ExecutorRuns ==
    {<<>>,
     <<"Resolving">>,
     <<"Resolving", "Failed">>,
     <<"Resolving", "LocatingBinary">>,
     <<"Resolving", "LocatingBinary", "Failed">>,
     <<"Resolving", "LocatingBinary", "Executing">>,
     <<"Resolving", "LocatingBinary", "Executing", "Reported">>,
     <<"Resolving", "LocatingBinary", "Executing", "Failed">>}

Terminal(c) == c.rpc = "done"

\* the states of a run
ExecutorStates ==
    \A p \in active :
        LET c == cmd[p]
            n == Len(c.checked)
        IN /\ c.trace \in ExecutorRuns
           /\ Terminal(c) <=> (c.trace # <<>> /\ c.trace[Len(c.trace)] \in {"Reported", "Failed"})
           /\ c.executes <= 1
           /\ c.executes = 1 =>
                 /\ n >= 1
                 /\ c.checked[n].answer = "true"
                 /\ "Executing" \in {c.trace[i] : i \in 1..Len(c.trace)}
           /\ (Terminal(c) /\ args[2] \notin ToolCommands("t1") \cup ToolCommands("t2")) =>
                 /\ c.trace = <<"Resolving", "Failed">>
                 /\ c.failure.kind = "no_tool_for_command"
                 /\ c.failure.command = args[2]
                 /\ c.tryLocks = 0
                 /\ n = 0
                 /\ c.executes = 0
           /\ c.tryLocks <= LockAttempts

\* a finished run takes no further step
ExecutorStopped ==
    \A p \in Procs : Terminal(cmd[p]) => cmd'[p] = cmd[p]

\* a started run finishes
ExecutorTerminates ==
    \A p \in Procs : (cmd[p].rpc = "resolve") ~> Terminal(cmd[p])

\* C26: a run of the executor goes Idle -> Resolving -> LocatingBinary ->
\* Executing -> Reported, or ends in Failed from any of these; execute is
\* called at most once and only after a candidate was found; an unknown
\* command fails with an error naming it before any lock, lookup or
\* execution; nothing happens after Reported or Failed; every run ends.
C26_ExecutorStateMachine ==
    /\ []ExecutorStates
    /\ [][ExecutorStopped]_vars
    /\ ExecutorTerminates

C26_Witness ==
    \E p \in active :
        /\ cmd[p].trace = <<"Resolving", "LocatingBinary", "Executing", "Reported">>
        /\ cmd[p].attempts = 0
        /\ cmd[p].exit_code = 255

----------------------------------------------------------------------------
(* Extraction paths: extract_zip and extract_targz on the entries of one    *)
(* archive.  A path is a sequence of components; DestinationPath is the     *)
(* tool's cache directory, relative to the project root.                    *)

DestinationPath == <<"cache", "lsd-1.2.3">>

ArchiveEntry(path, absolute, kind, data) ==
    [path |-> path, absolute |-> absolute, kind |-> kind, data |-> data]

\* entries an archive may hold: well-formed ones, and ones that use "..",
\* "." or an absolute path; data stands for the bytes of a file entry
XEntries ==
    { ArchiveEntry(<<"upper", "foo">>, FALSE, "file", "bar"),
      ArchiveEntry(<<"upper", "foo">>, FALSE, "file", "baz"),
      ArchiveEntry(<<"upper", "fizz", "buzz">>, FALSE, "file", "bizz"),
      ArchiveEntry(<<"upper", "fizz">>, FALSE, "dir", None),
      ArchiveEntry(<<"upper", "link">>, FALSE, "other", None),
      ArchiveEntry(<<"foo">>, FALSE, "file", "bar"),
      ArchiveEntry(<<".", "upper", "foo">>, FALSE, "file", "bar"),
      ArchiveEntry(<<"..", "evil">>, FALSE, "file", "bar"),
      ArchiveEntry(<<"upper", "..", "evil">>, FALSE, "file", "bar"),
      ArchiveEntry(<<"upper", "..", "..", "evil">>, FALSE, "file", "bar"),
      ArchiveEntry(<<"upper", "..", "evildir">>, FALSE, "dir", None),
      ArchiveEntry(<<"etc", "evil">>, TRUE, "file", "bar") }

RECURSIVE SeqsUpTo(_, _)
SeqsUpTo(S, n) ==
    IF n = 0 THEN {<<>>}
    ELSE LET shorter == SeqsUpTo(S, n - 1)
         IN shorter \cup {Append(q, x) : q \in {r \in shorter : Len(r) = n - 1}, x \in S}

XArchives == SeqsUpTo(XEntries, MaxEntries) \ {<<>>}

\* ZipFile::enclosed_name: None for an absolute path or one whose ".."
\* components climb above its start; otherwise the path as stored
RECURSIVE DepthOk(_, _)
DepthOk(path, depth) ==
    IF path = <<>> THEN TRUE
    ELSE IF Head(path) = ".." THEN depth > 0 /\ DepthOk(Tail(path), depth - 1)
    ELSE IF Head(path) = "." THEN DepthOk(Tail(path), depth)
    ELSE DepthOk(Tail(path), depth + 1)

enclosed_name(entry) ==
    IF entry.absolute \/ ~DepthOk(entry.path, 0) THEN None ELSE entry.path

\* RelativePathBuf::from_path: an absolute path is an error, "." components are
\* dropped, ".." components are kept
RECURSIVE DropCurDir(_)
DropCurDir(path) ==
    IF path = <<>> THEN <<>>
    ELSE IF Head(path) = "." THEN DropCurDir(Tail(path))
    ELSE <<Head(path)>> \o DropCurDir(Tail(path))

from_path(path, absolute) == IF absolute THEN None ELSE DropCurDir(path)

\* variant: no component is skipped
SkipNoComponent(path) == path

\* components.next(); components.as_relative_path(): the path without its
\* first component
SkipFirstComponent(path) == IF path = <<>> THEN <<>> ELSE Tail(path)

\* destination_path.join(relative_path_buf)
JoinedPath(rel) == DestinationPath \o SkipFirstComponent(rel)

\* RelativePath::parent
Parent(path) == IF path = <<>> THEN None ELSE SubSeq(path, 1, Len(path) - 1)

\* the file the operating system reaches for a path below the project root
\* (RealAdapter::resolve_path, then the kernel's handling of "..")
RECURSIVE Resolve(_, _)
Resolve(done, path) ==
    IF path = <<>> THEN done
    ELSE IF Head(path) = ".."
         THEN IF done # <<>> /\ done[Len(done)] # ".."
              THEN Resolve(SubSeq(done, 1, Len(done) - 1), Tail(path))
              ELSE Resolve(Append(done, ".."), Tail(path))
         ELSE Resolve(Append(done, Head(path)), Tail(path))

\* what one entry makes the adapter create: the paths of create_directory_all
\* and create_file calls, and the bytes copied into a created file
DirEffect(path) == {[op |-> "create_dir", at |-> Resolve(<<>>, path), data |-> None]}
FileEffect(path, data) ==
    (IF Parent(path) # None THEN DirEffect(Parent(path)) ELSE {})
      \cup {[op |-> "create_file", at |-> Resolve(<<>>, path), data |-> data]}

InitExtract ==
    /\ InitPipeline({}, {CHOOSE m \in Manifests : m["t2"].default_download_artifact = "u3"},
                    {"linux"}, {<<>>}, {[t \in ToolSet |-> AbsentDir]})
    /\ xFormat \in {"Zip", "TarGz"}
    /\ xArchive \in XArchives
    /\ xIdx = 1
    /\ xWritten = {}
    /\ xStatus = "running"

XAdvance ==
    /\ xIdx' = xIdx + 1
    /\ xStatus' = IF xIdx = Len(xArchive) THEN "ok" ELSE "running"

\* one iteration of the loop of extract_zip (lines 166-189)
extract_zip ==
    /\ xFormat = "Zip"
    /\ xStatus = "running"
    /\ LET entry == xArchive[xIdx]
           outpath == enclosed_name(entry)
       IN IF outpath = None
          THEN XAdvance /\ UNCHANGED xWritten
          ELSE LET joined_path == JoinedPath(from_path(outpath, FALSE))
               IN /\ xWritten' = xWritten \cup
                        (IF entry.kind = "dir" THEN DirEffect(joined_path)
                                               ELSE FileEffect(joined_path, entry.data))
                  /\ XAdvance
    /\ UNCHANGED <<envVars, fsVars, procVars, histVars, xFormat, xArchive, runVars, tplVars>>

\* one iteration of the loop of extract_targz (lines 200-224)
extract_targz ==
    /\ xFormat = "TarGz"
    /\ xStatus = "running"
    /\ LET entry == xArchive[xIdx]
           relative_path_buf == from_path(entry.path, entry.absolute)
       IN IF relative_path_buf = None
          THEN /\ xStatus' = "err"
               /\ UNCHANGED <<xWritten, xIdx>>
          ELSE LET joined_path == JoinedPath(relative_path_buf)
               IN /\ xWritten' = xWritten \cup
                        (CASE entry.kind = "dir" -> DirEffect(joined_path)
                           [] entry.kind = "file" -> FileEffect(joined_path, entry.data)
                           [] OTHER -> {})
                  /\ XAdvance
    /\ UNCHANGED <<envVars, fsVars, procVars, histVars, xFormat, xArchive, runVars, tplVars>>

NextExtract == extract_zip \/ extract_targz

SpecExtract == InitExtract /\ [][NextExtract]_vars

IsPrefix(a, b) == Len(a) <= Len(b) /\ SubSeq(b, 1, Len(a)) = a

\* a created directory is outside the destination unless it is the
\* destination, below it, or one of its ancestors; a file is outside unless it
\* is at or below the destination
Outside(w) ==
    IF w.op = "create_dir"
    THEN ~IsPrefix(DestinationPath, w.at) /\ ~IsPrefix(w.at, DestinationPath)
    ELSE ~IsPrefix(DestinationPath, w.at)

\* C10 (as stated): extraction of a zip or tar.gz archive creates or writes no
\* file or directory outside the destination directory, whatever the entry
\* paths.
C10_NoEscape == \A w \in xWritten : ~Outside(w)

\* an entry whose path is relative and made of plain names
PlainEntry(entry) ==
    /\ ~entry.absolute
    /\ \A i \in DOMAIN entry.path : entry.path[i] \notin {".", ".."}

\* C11: every processed entry c1/c2/.../cn (n >= 2, plain names) of a zip or a
\* tar.gz archive is created at <cache-dir>/c2/.../cn, a file with the bytes
\* of the entry, a directory as a directory; the same for both formats.
C11_StripsOneComponent ==
    \A i \in DOMAIN xArchive :
        LET entry == xArchive[i]
            target == DestinationPath \o SubSeq(entry.path, 2, Len(entry.path))
        IN (/\ i < xIdx
            /\ xFormat \in {"Zip", "TarGz"}
            /\ PlainEntry(entry)
            /\ Len(entry.path) >= 2
            /\ entry.kind \in {"file", "dir"})
             => [op |-> IF entry.kind = "file" THEN "create_file" ELSE "create_dir",
                 at |-> target, data |-> entry.data] \in xWritten

C11_Witness ==
    /\ xStatus = "ok"
    /\ \E i, j \in DOMAIN xArchive :
          /\ xArchive[i].path = <<"upper", "foo">>
          /\ xArchive[j].path = <<"upper", "fizz", "buzz">>
    /\ \E w \in xWritten : w.op = "create_file" /\ w.at = DestinationPath \o <<"foo">>
    /\ \E w \in xWritten :
          w.op = "create_file" /\ w.at = DestinationPath \o <<"fizz", "buzz">>

----------------------------------------------------------------------------
(* Template strings: TemplateString::try_from and TemplateExpander::expand. *)
(* A text is a sequence of characters; a character of the text takes one    *)
(* byte, except "é", which takes two.                                       *)

MaxFragments == 3       \* fragments a template text is made of

CharWidth(c) == IF c = "é" THEN 2 ELSE 1

\* the UTF-8 encoding of a text: for each byte, its character and its index
\* within the character
RECURSIVE Bytes(_)
Bytes(text) ==
    IF text = <<>> THEN <<>>
    ELSE [k \in 1..CharWidth(Head(text)) |-> <<Head(text), k>>] \o Bytes(Tail(text))

\* str::len: the length in bytes
ByteLen(text) == Len(Bytes(text))

\* chars[i] of the Vec<char>, with 0-based i: out of bounds is a panic
CharAt(text, i) ==
    [ok |-> i < Len(text), c |-> IF i < Len(text) THEN text[i + 1] ELSE ""]

IsCharBoundary(text, i) ==
    \/ i = 0
    \/ i = ByteLen(text)
    \/ i < ByteLen(text) /\ Bytes(text)[i + 1][2] = 1

IsFirstByte(byte) == byte[2] = 1

\* &value[a..b]: the bytes a..b-1 decoded; a panic unless a and b are
\* character boundaries
Slice(text, a, b) ==
    LET first == SelectSeq(SubSeq(Bytes(text), a + 1, b), IsFirstByte)
    IN [ok |-> IsCharBoundary(text, a) /\ IsCharBoundary(text, b),
        text |-> [i \in 1..Len(first) |-> first[i][1]]]

\* lines 77-79: advance to the next '}' or to the end
RECURSIVE ScanToClose(_, _)
ScanToClose(text, pos) ==
    IF pos < ByteLen(text)
    THEN IF ~CharAt(text, pos).ok THEN [ok |-> FALSE, pos |-> pos]
         ELSE IF CharAt(text, pos).c # "}" THEN ScanToClose(text, pos + 1)
         ELSE [ok |-> TRUE, pos |-> pos]
    ELSE [ok |-> TRUE, pos |-> pos]

\* the index of the first occurrence of sep in text, or 0
RECURSIVE IndexOf(_, _, _)
IndexOf(text, sep, i) ==
    IF i > Len(text) THEN 0
    ELSE IF text[i] = sep THEN i
    ELSE IndexOf(text, sep, i + 1)

\* str::split_once(':').unwrap_or((s, ""))
split_once(text) ==
    LET i == IndexOf(text, ":", 1)
    IN IF i = 0 THEN <<text, <<>>>>
       ELSE <<SubSeq(text, 1, i - 1), SubSeq(text, i + 1, Len(text))>>

\* str::split(','): at least one piece
RECURSIVE split(_)
split(text) ==
    LET i == IndexOf(text, ",", 1)
    IN IF i = 0 THEN <<text>>
       ELSE <<SubSeq(text, 1, i - 1)>> \o split(SubSeq(text, i + 1, Len(text)))

\* TemplateStringPart::plain and TemplateStringPart::substitution
PlainText(text) ==
    [kind |-> "plain", text |-> text, directive |-> <<>>, arguments |-> <<>>]
Substitution(directive, arguments) ==
    [kind |-> "substitution", text |-> <<>>, directive |-> directive,
     arguments |-> arguments]

SetTpl(rec) == tpl' = rec /\ UNCHANGED <<expansion, ledger>>

Panic(t) == [t EXCEPT !.status = "panic"]

\* lines 84-89: the part pushed for the text between the delimiters
SubstitutionPart(sub) ==
    LET pair == split_once(sub)
    IN Substitution(pair[1], split(pair[2]))

\* lines 67-96: the parser's locals after one iteration of the loop over the
\* text
try_from_loop(t) ==
    LET value == t.value
        pos == t.current_pos
        this == CharAt(value, pos)
        next == CharAt(value, pos + 1)
    IN IF ~this.ok THEN Panic(t)
       ELSE IF this.c = "$" /\ pos + 1 < ByteLen(value) /\ ~next.ok THEN Panic(t)
       ELSE IF this.c = "$" /\ pos + 1 < ByteLen(value) /\ next.c = "{"
       THEN LET plain == Slice(value, t.start_pos, pos)
                before == IF t.start_pos < pos
                          THEN Append(t.parts, PlainText(plain.text))
                          ELSE t.parts
                close == ScanToClose(value, pos + 2)
                sub == Slice(value, pos + 2, close.pos)
            IN IF t.start_pos < pos /\ ~plain.ok THEN Panic(t)
               ELSE IF ~close.ok THEN Panic(t)
               ELSE IF pos + 2 < close.pos /\ ~sub.ok THEN Panic(t)
               ELSE [t EXCEPT
                       !.parts = IF pos + 2 < close.pos
                                 THEN Append(before, SubstitutionPart(sub.text))
                                 ELSE before,
                       !.current_pos = close.pos + 1,
                       !.start_pos = close.pos + 1]
       ELSE [t EXCEPT !.current_pos = pos + 1]

try_from_step ==
    /\ tpl.status = "parsing"
    /\ tpl.current_pos < ByteLen(tpl.value)
    /\ SetTpl(try_from_loop(tpl))
    /\ UNCHANGED <<envVars, fsVars, procVars, histVars, xVars, runVars>>

\* lines 97-100: the rest of the text, and the parts are returned
try_from_tail(t) ==
    LET plain == Slice(t.value, t.start_pos, t.current_pos)
    IN IF t.start_pos < t.current_pos
       THEN IF plain.ok
            THEN [t EXCEPT !.parts = Append(@, PlainText(plain.text)),
                           !.status = "parsed"]
            ELSE Panic(t)
       ELSE [t EXCEPT !.status = "parsed"]

try_from_return ==
    /\ tpl.status = "parsing"
    /\ tpl.current_pos >= ByteLen(tpl.value)
    /\ SetTpl(try_from_tail(tpl))
    /\ UNCHANGED <<envVars, fsVars, procVars, histVars, xVars, runVars>>

\* TemplateString::try_from run to its end on a text
RECURSIVE try_from_run(_)
try_from_run(t) ==
    IF t.status # "parsing" THEN t
    ELSE IF t.current_pos < ByteLen(t.value)
    THEN CHOOSE parsed \in {try_from_run(next) : next \in {try_from_loop(t)}} : TRUE
    ELSE try_from_tail(t)

try_from(value) ==
    try_from_run([TplIdle EXCEPT !.status = "parsing", !.origin = "try_from",
                                 !.value = value])

\* the directives with a registered replacer: v yields a version, f yields
\* its first argument
Replacers == {<<"v">>, <<"f">>}
Version == <<"1", ".", "0">>

\* SubstitutionReplacer::replace of the registered replacers
replace(substitution) ==
    IF substitution.directive = <<"v">> THEN Version ELSE substitution.arguments[1]

\* variant: an unknown directive expands to nothing
KnownDirectiveAny(directive) == TRUE

\* line 47: self.replacer.get(&substitution.directive)
KnownDirective(directive) == directive \in Replacers

\* lines 41-57: one part of the template
expand_step ==
    /\ tpl.status = "parsed"
    /\ tpl.idx <= Len(tpl.parts)
    /\ LET part == tpl.parts[tpl.idx]
       IN IF part.kind = "plain"
          THEN SetTpl([tpl EXCEPT !.result = @ \o part.text, !.idx = @ + 1])
          ELSE IF KnownDirective(part.directive)
          THEN SetTpl([tpl EXCEPT
                         !.result = @ \o (IF part.directive \in Replacers
                                          THEN replace(part) ELSE <<>>),
                         !.idx = @ + 1])
          ELSE SetTpl([tpl EXCEPT !.status = "unknown_directive",
                                  !.returned = [ok |-> FALSE, text |-> part.directive]])
    /\ UNCHANGED <<envVars, fsVars, procVars, histVars, xVars, runVars>>

\* line 58
expand_return ==
    /\ tpl.status = "parsed"
    /\ tpl.idx > Len(tpl.parts)
    /\ SetTpl([tpl EXCEPT !.status = "expanded",
                          !.returned = [ok |-> TRUE, text |-> tpl.result]])
    /\ UNCHANGED <<envVars, fsVars, procVars, histVars, xVars, runVars>>

\* the pieces template texts are made of
Fragments ==
    {<<"x">>,
     <<"é">>,
     <<",">>,
     <<"$">>,
     <<"}">>,
     <<"$", "{", "v", "}">>,
     <<"$", "{", "v", ":", "}">>,
     <<"$", "{", "f", ":", "x", "}">>,
     <<"$", "{", "f", ":", "x", ",", "y", "}">>,
     <<"$", "{", "f", ":", "é", "}">>,
     <<"$", "{", "u", "}">>,
     <<"$", "{", "}">>,
     <<"$", "{", "f", ":", "x">>}

\* templates built from parts, as TemplateString { parts: vec![..] }
BuiltTemplates ==
    {<<PlainText(<<"é">>)>>,
     <<PlainText(<<"x">>), PlainText(<<"é", "x">>)>>,
     <<PlainText(<<"é">>), Substitution(<<"v">>, <<>>), PlainText(<<"$", "{">>)>>,
     <<PlainText(<<"x">>), Substitution(<<"f">>, <<<<"é">>, <<"y">>>>)>>,
     <<Substitution(<<"u">>, <<>>), PlainText(<<"x">>)>>}

RECURSIVE Texts(_)
Texts(n) ==
    IF n = 0 THEN {<<>>}
    ELSE Texts(n - 1) \cup {t \o f : t \in Texts(n - 1), f \in Fragments}

InitTemplate ==
    /\ InitProcesses({}, {CHOOSE m \in Manifests : m["t2"].default_download_artifact = "u3"},
                     {"linux"}, {<<>>}, {[t \in ToolSet |-> AbsentDir]}, None)
    /\ InitInputs({DefaultArgs}, {<<>>}, {QuietChild})
    /\ XIdle
    /\ tpl \in {[TplIdle EXCEPT !.status = "parsing", !.origin = "try_from",
                                 !.value = text] : text \in Texts(MaxFragments)}
             \cup {[TplIdle EXCEPT !.status = "parsed", !.origin = "built",
                                    !.parts = parts] : parts \in BuiltTemplates}
    /\ expansion = ExpansionIdle
    /\ ledger = LedgerIdle

NextTemplate ==
    \/ try_from_step
    \/ try_from_return
    \/ expand_step
    \/ expand_return

SpecTemplate == InitTemplate /\ [][NextTemplate]_vars

----------------------------------------------------------------------------
(* Properties of template strings *)

\* the index of the first "}" of text at or after i, or 0
RECURSIVE CloseAfter(_, _)
CloseAfter(text, i) ==
    IF i > Len(text) THEN 0
    ELSE IF text[i] = "}" THEN i
    ELSE CloseAfter(text, i + 1)

OpensAt(text, i) == i + 1 <= Len(text) /\ text[i] = "$" /\ text[i + 1] = "{"

\* every ${ of the text, read from the left, has a closing }
RECURSIVE WellTerminatedFrom(_, _)
WellTerminatedFrom(text, i) ==
    IF i > Len(text) THEN TRUE
    ELSE IF OpensAt(text, i)
    THEN CloseAfter(text, i + 2) # 0 /\ WellTerminatedFrom(text, CloseAfter(text, i + 2) + 1)
    ELSE WellTerminatedFrom(text, i + 1)

WellTerminated(text) == WellTerminatedFrom(text, 1)

\* the comma-separated pieces of a text
RECURSIVE CommaSeparated(_, _)
CommaSeparated(text, piece) ==
    IF text = <<>> THEN <<piece>>
    ELSE IF Head(text) = "," THEN <<piece>> \o CommaSeparated(Tail(text), <<>>)
    ELSE CommaSeparated(Tail(text), Append(piece, Head(text)))

\* the directive segment for the text between ${ and }
ExpectedDirective(inner) ==
    LET colons == {i \in 1..Len(inner) : inner[i] = ":"}
        colon == IF colons = {} THEN Len(inner) + 1
                 ELSE CHOOSE i \in colons : \A j \in colons : i <= j
    IN [kind |-> "substitution", text |-> <<>>,
        directive |-> SubSeq(inner, 1, colon - 1),
        arguments |-> CommaSeparated(SubSeq(inner, colon + 1, Len(inner)), <<>>)]

ExpectedLiteral(literal) ==
    IF literal = <<>> THEN <<>>
    ELSE <<[kind |-> "plain", text |-> literal, directive |-> <<>>, arguments |-> <<>>]>>

\* the segments of a text, an unterminated ${ and what follows being literal
RECURSIVE ExpectedParts(_, _, _)
ExpectedParts(text, i, literal) ==
    IF i > Len(text) THEN ExpectedLiteral(literal)
    ELSE IF OpensAt(text, i) /\ CloseAfter(text, i + 2) # 0
    THEN LET close == CloseAfter(text, i + 2)
         IN ExpectedLiteral(literal)
            \o <<ExpectedDirective(SubSeq(text, i + 2, close - 1))>>
            \o ExpectedParts(text, close + 1, <<>>)
    ELSE ExpectedParts(text, i + 1, Append(literal, text[i]))

\* try_from has returned or panicked
ParseOver ==
    /\ tpl.origin = "try_from"
    /\ tpl.status \in {"parsed", "expanded", "unknown_directive", "panic"}

Directives(parts) == SelectSeq(parts, LAMBDA part : part.kind = "substitution")

\* C27: parsing yields the segments in source order: a directive for each
\* ${...}, named by the text before the first ':' and with the comma-separated
\* arguments after it (one empty argument when there is none), literals for
\* all other text, no empty literal, and no segment for the empty text.
C27_SegmentsInSourceOrder ==
    (ParseOver /\ WellTerminated(tpl.value) /\ tpl.status # "panic") =>
        tpl.parts = ExpectedParts(tpl.value, 1, <<>>)

\* C28: for a text with a ${ that is never closed, parsing returns an error
\* or keeps the unterminated text as literal; it makes no directive of it.
C28_UnterminatedIsNoDirective ==
    (ParseOver /\ ~WellTerminated(tpl.value) /\ tpl.status # "panic") =>
        Directives(tpl.parts) = Directives(ExpectedParts(tpl.value, 1, <<>>))

\* the characters of a text that belong to a literal, a directive name or an
\* argument, the text between ${ and } being non-empty
RECURSIVE SourceCharacters(_, _, _)
SourceCharacters(text, i, mode) ==
    IF i > Len(text) THEN <<>>
    ELSE IF mode = "literal"
    THEN IF OpensAt(text, i) THEN SourceCharacters(text, i + 2, "name")
         ELSE <<text[i]>> \o SourceCharacters(text, i + 1, "literal")
    ELSE IF text[i] = "}" THEN SourceCharacters(text, i + 1, "literal")
    ELSE IF mode = "name" /\ text[i] = ":" THEN SourceCharacters(text, i + 1, "arguments")
    ELSE IF mode = "arguments" /\ text[i] = "," THEN SourceCharacters(text, i + 1, "arguments")
    ELSE <<text[i]>> \o SourceCharacters(text, i + 1, mode)

RECURSIVE Flatten(_)
Flatten(texts) == IF texts = <<>> THEN <<>> ELSE Head(texts) \o Flatten(Tail(texts))

PartCharacters(parts) ==
    Flatten([i \in 1..Len(parts) |->
                parts[i].text \o parts[i].directive \o Flatten(parts[i].arguments)])

\* C29: on a text whose substitutions are all terminated, whatever characters
\* it contains, parsing returns segments, and their texts are the characters
\* of the source.
C29_WellFormedNeverFails ==
    (ParseOver /\ WellTerminated(tpl.value)) =>
        /\ tpl.status # "panic"
        /\ PartCharacters(tpl.parts) = SourceCharacters(tpl.value, 1, "literal")

\* the output of each registered resolver
ResolverOutput(part) ==
    IF part.directive = <<"v">> THEN <<"1", ".", "0">> ELSE part.arguments[1]

Registered == {<<"v">>, <<"f">>}

Unregistered(parts) ==
    {i \in 1..Len(parts) : parts[i].kind = "substitution" /\ parts[i].directive \notin Registered}

\* C30: expand returns the literal segments and the resolvers' outputs
\* concatenated in segment order; a template without substitutions expands to
\* its text; a directive without resolver makes expand fail with an error
\* naming that directive and return no text.
C30_Expansion ==
    LET parts == tpl.parts
        unknown == Unregistered(parts)
    IN /\ tpl.status = "expanded" =>
             /\ unknown = {}
             /\ tpl.returned.ok
             /\ tpl.returned.text =
                   Flatten([i \in 1..Len(parts) |->
                               IF parts[i].kind = "plain" THEN parts[i].text
                               ELSE ResolverOutput(parts[i])])
             /\ Directives(parts) = <<>> =>
                   /\ tpl.returned.text = Flatten([i \in 1..Len(parts) |-> parts[i].text])
                   /\ (tpl.origin = "try_from"
                          /\ \A i \in 1..Len(tpl.value) : ~OpensAt(tpl.value, i)) =>
                         tpl.returned.text = tpl.value
       /\ tpl.status = "unknown_directive" =>
             /\ unknown # {}
             /\ ~tpl.returned.ok
             /\ tpl.returned.text = parts[CHOOSE i \in unknown : \A j \in unknown : i <= j].directive
       /\ (tpl.status = "parsed" /\ tpl.idx > Len(parts)) => unknown = {}

C30_Witness ==
    /\ tpl.status = "expanded"
    /\ tpl.origin = "try_from"
    /\ tpl.value = <<"x", "$", "{", "f", ":", "x", ",", "y", "}", "$", "{", "v", "}">>
    /\ tpl.returned.text = <<"x", "x", "1", ".", "0">>

----------------------------------------------------------------------------
(* Expansion of a configuration (logic/src/configuration/expand_config.rs) *)

MaxDepth == 4           \* nested expand calls

\* ${name:argument}
Directive(name, argument) == <<"$", "{", name, ":", argument, "}">>

\* the command strings of the configurations
CommandStrings ==
    {<<"x">>,
     Directive("linux", "bin") \o <<"/lsd">> \o Directive("windows", ".exe"),
     Directive("macos", "m") \o Directive("linux", "l") \o Directive("windows", "w"),
     <<"$", "{", "version", "}">>,
     Directive("dir", "foo"),
     Directive("cmd", "a") \o <<" ", "one">>,
     Directive("cmd", "b") \o <<" ", "two">>,
     Directive("cmd", "c"),
     <<"$", "{", "u", "}">> \o Directive("cmd", "a"),
     Directive("dir", "nope")}

CommandNames == <<"a", "b", "c">>

\* the command strings that refer to commands, or fail before they do
ReferenceStrings ==
    {<<"x">>,
     Directive("cmd", "a") \o <<" ", "one">>,
     Directive("cmd", "b") \o <<" ", "two">>,
     Directive("cmd", "c"),
     <<"$", "{", "u", "}">> \o Directive("cmd", "a")}

\* the download URL of lsd and the value of foo's environment variable
UrlTemplate == <<"https://host/", "$", "{", "version", "}", "/lsd.tar.gz">>
EnvTemplate == Directive("env", "FIZZ") \o <<"bar">>

\* TemplateString::try_from on the templates of the configurations
TemplateTexts == CommandStrings \cup ReferenceStrings \cup {UrlTemplate, EnvTemplate}
ParsedTemplates == [text \in TemplateTexts |-> try_from(text)]

\* a text is a sequence of pieces: the delimiters $ { } : , are pieces of
\* their own, every other piece is a run of characters without delimiter
ToolConfiguration(name, version, download_urls, commands, env) ==
    [name |-> name, version |-> version, download_urls |-> download_urls,
     commands |-> commands, env |-> env]

\* lines 16-30: the templates of a tool in the order they are expanded: the
\* download URLs, the command strings, the environment values
TemplateFields(tool) ==
    [i \in 1..Len(tool.download_urls) |-> <<"download_urls", i>>]
    \o [i \in 1..Len(tool.commands) |-> <<"commands", i>>]
    \o [i \in 1..Len(tool.env) |-> <<"env", i>>]

FieldText(tool, field) ==
    CASE field[1] = "download_urls" -> tool.download_urls[field[2]].url
      [] field[1] = "commands"      -> tool.commands[field[2]].command_string
      [] field[1] = "env"           -> tool.env[field[2]].value

\* lines 19, 24, 29: the expanded text replaces the template
SetField(tool, field, text) ==
    CASE field[1] = "download_urls" -> [tool EXCEPT !.download_urls[field[2]].url = text]
      [] field[1] = "commands"      -> [tool EXCEPT !.commands[field[2]].command_string = text]
      [] field[1] = "env"           -> [tool EXCEPT !.env[field[2]].value = text]

\* line 14: the next tool at or after index i that has a template left
RECURSIVE NextToolWithFields(_, _)
NextToolWithFields(config, i) ==
    IF i > Len(config) THEN i
    ELSE IF TemplateFields(config[i]) # <<>> THEN i
    ELSE NextToolWithFields(config, i + 1)

\* lines 42-46: config.tools.iter().find(|tool| tool.name == *tool_name)
RECURSIVE FindToolNamed(_, _)
FindToolNamed(config, tool_name) ==
    IF config = <<>> THEN <<>>
    ELSE IF Head(config).name = tool_name THEN <<Head(config)>>
    ELSE FindToolNamed(Tail(config), tool_name)

RECURSIVE FindCommandNamed(_, _)
FindCommandNamed(commands, command_name) ==
    IF commands = <<>> THEN <<>>
    ELSE IF Head(commands).name = command_name THEN <<Head(commands)>>
    ELSE FindCommandNamed(Tail(commands), command_name)

\* find_command(command_name, config): the first tool that declares the
\* command, with the command, or an error
RECURSIVE find_command_in(_, _)
find_command_in(command_name, config) ==
    IF config = <<>> THEN <<>>
    ELSE IF FindCommandNamed(Head(config).commands, command_name) # <<>>
    THEN <<[tool_config |-> Head(config),
            command_config |-> FindCommandNamed(Head(config).commands, command_name)[1]]>>
    ELSE find_command_in(command_name, Tail(config))

\* lines 40-53: the replacer of dir
DirReplacer(config, platform, substitution) ==
    LET found == FindToolNamed(config, substitution.arguments[1])
    IN IF found = <<>> THEN [ok |-> FALSE, text |-> substitution.arguments[1]]
       ELSE [ok |-> TRUE,
             text |-> <<".tool-tool", "/", "v2", "/", "cache", "/">>
                      \o found[1].name \o <<"-">> \o found[1].version
                      \o <<"-", platform>>]

\* variant: every platform directive yields its argument
PlatformReplacerAnyHost(platform, host_platform, substitution) ==
    substitution.arguments[1]

\* lines 55-63: the replacer registered for a platform
PlatformReplacer(platform, host_platform, substitution) ==
    IF platform = host_platform THEN substitution.arguments[1] ELSE <<>>

\* lines 67-75: the replacer of env
EnvReplacer(host_env, substitution) ==
    LET arg == substitution.arguments[1]
        found == IF Len(arg) = 1 THEN FindEnv(host_env, arg[1]) ELSE <<>>
    IN IF found = <<>> THEN [ok |-> FALSE, text |-> arg]
       ELSE [ok |-> TRUE, text |-> <<found[1][2]>>]

\* variant: no cmd directive is registered
RegistrationsWithoutCmd == {<<"dir">>, <<"env">>, <<"version">>} \cup {<<p>> : p \in Platforms}

\* the directives create_expander registers, and version
Registrations == {<<"dir">>, <<"cmd">>, <<"env">>, <<"version">>} \cup {<<p>> : p \in Platforms}

\* one call of TemplateExpander::expand: the version its expander binds, the
\* parts of its template, its loop index and its result so far
Frame(version, parts, command_name, tool_name) ==
    [version |-> version, parts |-> parts, idx |-> 1, result |-> <<>>,
     command_name |-> command_name, tool_name |-> tool_name]

SetExpansion(rec) ==
    /\ expansion' = rec
    /\ UNCHANGED <<tpl, ledger, envVars, fsVars, procVars, histVars, xVars, runVars>>

\* an error returned through every pending expand call
ExpansionError(e, kind, text) ==
    [e EXCEPT !.status = "err", !.stack = <<>>, !.error = <<kind, text>>]

\* a panic inside TemplateString::try_from
ExpansionPanic(e) == [e EXCEPT !.status = "panic", !.stack = <<>>]

\* lines 12-13: the snapshot is taken
expand_configuration_clone ==
    /\ expansion.status = "called"
    /\ SetExpansion([expansion EXCEPT
                       !.status = "running",
                       !.original_configuration = expansion.configuration,
                       !.tool = NextToolWithFields(expansion.configuration, 1),
                       !.field = 1])

\* lines 15-17, 22, 27: the next template of the tool is parsed, and expand
\* is called with an expander that binds version to the tool's version
FieldCall(e) ==
    LET tool == e.configuration[e.tool]
        field == TemplateFields(tool)[e.field]
        parsed == ParsedTemplates[FieldText(tool, field)]
    IN IF parsed.status = "panic" THEN ExpansionPanic(e)
       ELSE [e EXCEPT !.stack = <<Frame(tool.version, parsed.parts,
                                         IF field[1] = "commands"
                                         THEN tool.commands[field[2]].name
                                         ELSE <<>>,
                                         tool.name)>>]

expand_configuration_field ==
    /\ expansion.status = "running"
    /\ expansion.stack = <<>>
    /\ expansion.tool <= Len(expansion.configuration)
    /\ SetExpansion(FieldCall(expansion))

\* one resolution of a directive, kept for stating the properties
Resolution(frame, part, output) ==
    [directive |-> part.directive, arguments |-> part.arguments, output |-> output,
     command_name |-> frame.command_name, tool_name |-> frame.tool_name]

\* variant: a referenced command sees the version of the referencing tool
CommandVersionOfCaller(found, frame) == frame.version

\* line 88: the expander of expand_command binds version to the version of
\* the tool that declares the command
CommandVersion(found, frame) == found.tool_config.version

\* the frame after a part has contributed its text
Pushed(frame, text) == [frame EXCEPT !.result = @ \o text, !.idx = @ + 1]

\* lines 86-91: expand_command up to its call of expand
CommandCall(e, host_platform, host_env) ==
    LET depth == Len(e.stack)
        frame == e.stack[depth]
        part == frame.parts[frame.idx]
        found == find_command_in(part.arguments[1], e.original_configuration)
        parsed == ParsedTemplates[found[1].command_config.command_string]
    IN IF found = <<>>
       THEN ExpansionError(e, "command_not_found", part.arguments[1])
       ELSE IF parsed.status = "panic" THEN ExpansionPanic(e)
       ELSE [e EXCEPT !.stack = Append(@, Frame(CommandVersion(found[1], frame),
                                               parsed.parts,
                                               found[1].command_config.name,
                                               found[1].tool_config.name))]

\* template_expander.rs lines 41-57 with the replacers of create_expander:
\* one part of the template of the innermost expand call
PartStep(e, host_platform, host_env) ==
    LET depth == Len(e.stack)
        frame == e.stack[depth]
        snapshot == e.original_configuration
        part == frame.parts[frame.idx]
        directive == part.directive
        Continue(text) ==
            [e EXCEPT !.stack[depth] = Pushed(frame, text),
                      !.resolved = IF part.kind = "plain" THEN @
                                   ELSE Append(@, Resolution(frame, part, text))]
    IN IF part.kind = "plain" THEN Continue(part.text)
       ELSE IF directive \notin Registrations
       THEN ExpansionError(e, "unknown_directive", directive)
       ELSE IF directive = <<"version">> THEN Continue(frame.version)
       ELSE IF directive = <<"dir">>
       THEN LET dir == DirReplacer(snapshot, host_platform, part)
            IN IF dir.ok THEN Continue(dir.text)
               ELSE ExpansionError(e, "tool_not_found", dir.text)
       ELSE IF directive = <<"env">>
       THEN LET env == EnvReplacer(host_env, part)
            IN IF env.ok THEN Continue(env.text)
               ELSE ExpansionError(e, "env_not_found", env.text)
       ELSE IF directive = <<"cmd">> THEN CommandCall(e, host_platform, host_env)
       ELSE Continue(PlatformReplacer(directive[1], host_platform, part))

\* the nesting of expand calls is followed up to MaxDepth calls
expand_part ==
    /\ expansion.status = "running"
    /\ expansion.stack # <<>>
    /\ expansion.stack[Len(expansion.stack)].idx
          <= Len(expansion.stack[Len(expansion.stack)].parts)
    /\ Len(PartStep(expansion, host, hostEnv).stack) <= MaxDepth
    /\ SetExpansion(PartStep(expansion, host, hostEnv))

\* template_expander.rs line 58: the innermost expand call returns its
\* result, to the cmd replacer of the enclosing call (line 65) or to the
\* field of the configuration (lines 18-19, 23-24, 28-29)
ExpandResult(e) ==
    LET depth == Len(e.stack)
        frame == e.stack[depth]
    IN IF depth > 1
       THEN LET caller == e.stack[depth - 1]
                part == caller.parts[caller.idx]
            IN [e EXCEPT !.stack = Append(SubSeq(@, 1, depth - 2),
                                          Pushed(caller, frame.result)),
                         !.resolved = Append(@, Resolution(caller, part, frame.result))]
       ELSE LET tool == e.configuration[e.tool]
                fields == TemplateFields(tool)
                last == e.field = Len(fields)
            IN [e EXCEPT !.stack = <<>>,
                         !.configuration[e.tool] =
                             SetField(tool, fields[e.field], frame.result),
                         !.tool = IF last
                                  THEN NextToolWithFields(e.configuration, @ + 1)
                                  ELSE @,
                         !.field = IF last THEN 1 ELSE @ + 1]

expand_result ==
    /\ expansion.status = "running"
    /\ expansion.stack # <<>>
    /\ expansion.stack[Len(expansion.stack)].idx
          > Len(expansion.stack[Len(expansion.stack)].parts)
    /\ SetExpansion(ExpandResult(expansion))

\* line 32
expand_configuration_return ==
    /\ expansion.status = "running"
    /\ expansion.stack = <<>>
    /\ expansion.tool > Len(expansion.configuration)
    /\ SetExpansion([expansion EXCEPT !.status = "ok"])

\* the configurations: tools lsd and foo in either order, the commands a, b
\* and c in either order, each owned by one of the tools
ConfigurationsOver(commandStrings) ==
    LET Commands(strings, owners, reversed, tool) ==
            LET all == [i \in 1..3 |->
                          LET k == IF reversed THEN 4 - i ELSE i
                          IN [name |-> <<CommandNames[k]>>, command_string |-> strings[k],
                              owner |-> owners[k]]]
                mine == SelectSeq(all, LAMBDA c : c.owner = tool)
            IN [i \in 1..Len(mine) |->
                  [name |-> mine[i].name, command_string |-> mine[i].command_string]]
        Lsd(strings, owners, reversed) ==
            ToolConfiguration(<<"lsd">>, <<"0.17.0">>,
                <<[platform |-> "linux",
                   url |-> UrlTemplate]>>,
                Commands(strings, owners, reversed, "lsd"), <<>>)
        Foo(strings, owners, reversed) ==
            ToolConfiguration(<<"foo">>, <<"1.2.3">>, <<>>,
                Commands(strings, owners, reversed, "foo"),
                <<[key |-> "FOO", value |-> EnvTemplate]>>)
    IN {IF reversed
        THEN <<Foo(strings, owners, reversed), Lsd(strings, owners, reversed)>>
        ELSE <<Lsd(strings, owners, reversed), Foo(strings, owners, reversed)>> :
           strings \in [1..3 -> commandStrings],
           owners \in {o \in [1..3 -> {"lsd", "foo"}] : o[1] = "lsd"},
           reversed \in BOOLEAN}

InitExpandOver(hosts, configurations) ==
    /\ InitProcesses({}, {CHOOSE m \in Manifests : m["t2"].default_download_artifact = "u3"},
                     hosts, {<<>>}, {[t \in ToolSet |-> AbsentDir]}, None)
    /\ InitInputs({DefaultArgs}, {<<<<"FIZZ", "BUZZ">>>>}, {QuietChild})
    /\ XIdle
    /\ tpl = TplIdle
    /\ expansion \in {[ExpansionIdle EXCEPT !.status = "called", !.configuration = c] :
                         c \in configurations}
    /\ ledger = LedgerIdle

InitExpand == InitExpandOver(Hosts, ConfigurationsOver(CommandStrings))

InitReferences == InitExpandOver({"linux"}, ConfigurationsOver(ReferenceStrings))

ExpandStep ==
    \/ expand_configuration_clone
    \/ expand_configuration_field
    \/ expand_part
    \/ expand_result
    \/ expand_configuration_return

NextExpand ==
    \/ expand_configuration_clone
    \/ expand_configuration_field
    \/ expand_part
    \/ expand_result
    \/ expand_configuration_return

SpecExpand == InitExpand /\ [][NextExpand]_vars

SpecReferences == InitReferences /\ [][NextExpand]_vars /\ WF_vars(ExpandStep)

----------------------------------------------------------------------------
(* The ledger file as text (logic/src/checksums.rs) *)

\* a file is a sequence of lines, a line a sequence of characters; a bare
\* word or a table header is one character of the model
Quote == "\""
Backslash == "\\"

\* the URLs of a ledger in the key order of BTreeMap<String, String>: the
\* byte order of the strings, '"' being 0x22 and '\' 0x5c
LedgerUrls ==
    <<<<"u">>, <<"u", Quote, "v">>, <<"u", Backslash>>, <<"u", Backslash, "t">>,
      <<"u", Backslash, "v">>, <<"v">>>>

LedgerDigests == {<<"d1">>, <<"d2">>}

\* lines 41-44: one line "url"="checksum" per entry, in key order; the
\* characters of url and checksum are written between the quotes as they
\* are, none is escaped (line 42: "TODO: escape url and checksum")
RECURSIVE EntryLines(_, _)
EntryLines(sums, i) ==
    IF i > Len(LedgerUrls) THEN <<>>
    ELSE (IF LedgerUrls[i] \in DOMAIN sums
          THEN <<<<Quote>> \o LedgerUrls[i] \o <<Quote, "=", Quote>>
                   \o sums[LedgerUrls[i]] \o <<Quote>>>>
          ELSE <<>>) \o EntryLines(sums, i + 1)

\* lines 38-44: the content of the file
ChecksumsContent(sums) == <<<<"[sha512sums]">>>> \o EntryLines(sums, 1)

\* toml: a basic string whose opening quote is before position i, up to its
\* closing quote; \" \\ and \t are escapes, another character after a
\* backslash is an error
RECURSIVE BasicString(_, _, _)
BasicString(line, i, value) ==
    IF i > Len(line) THEN [ok |-> FALSE, value |-> value, next |-> i]
    ELSE IF line[i] = Quote THEN [ok |-> TRUE, value |-> value, next |-> i + 1]
    ELSE IF line[i] = Backslash
    THEN IF i + 1 > Len(line) THEN [ok |-> FALSE, value |-> value, next |-> i]
         ELSE IF line[i + 1] \in {Quote, Backslash}
         THEN BasicString(line, i + 2, Append(value, line[i + 1]))
         ELSE IF line[i + 1] = "t" THEN BasicString(line, i + 2, Append(value, "TAB"))
         ELSE [ok |-> FALSE, value |-> value, next |-> i]
    ELSE BasicString(line, i + 1, Append(value, line[i]))

\* toml: a key, quoted or bare, that starts the line
TomlKey(line) ==
    IF line[1] = Quote THEN BasicString(line, 2, <<>>)
    ELSE [ok |-> line[1] \notin {"=", Backslash}, value |-> <<line[1]>>, next |-> 2]

\* toml: a value that ends the line: a basic string or an integer
TomlValue(line, i) ==
    IF i > Len(line) THEN [ok |-> FALSE, kind |-> "none", value |-> <<>>]
    ELSE IF line[i] = Quote
    THEN LET string == BasicString(line, i + 1, <<>>)
         IN [ok |-> string.ok /\ string.next = Len(line) + 1, kind |-> "string",
             value |-> string.value]
    ELSE [ok |-> line[i] = "1" /\ i = Len(line), kind |-> "integer", value |-> <<line[i]>>]

\* toml_span::parse, line by line: the table headers and the key/value
\* pairs with the table they are in; a repeated key is an error
RECURSIVE TomlParse(_, _, _)
TomlParse(lines, table, document) ==
    IF lines = <<>> THEN [ok |-> TRUE, document |-> document]
    ELSE LET line == Head(lines)
             key == TomlKey(line)
             value == TomlValue(line, key.next + 1)
             entry == [table |-> table, key |-> key.value, kind |-> value.kind,
                       value |-> value.value]
         IN IF line = <<>> THEN TomlParse(Tail(lines), table, document)
            ELSE IF line \in {<<"[sha512sums]">>, <<"[other]">>}
            THEN IF \E e \in document : e.kind = "table" /\ e.key = line
                 THEN [ok |-> FALSE, document |-> document]
                 ELSE TomlParse(Tail(lines), line,
                                document \cup {[table |-> <<>>, key |-> line,
                                                kind |-> "table", value |-> <<>>]})
            ELSE IF /\ key.ok
                    /\ key.next <= Len(line)
                    /\ line[key.next] = "="
                    /\ value.ok
                    /\ \A e \in document : ~(e.table = table /\ e.key = key.value)
            THEN TomlParse(Tail(lines), table, document \cup {entry})
            ELSE [ok |-> FALSE, document |-> document]

\* variant: a file that cannot be read as a ledger gives an empty ledger
LoadedLenient(store) ==
    LET parsed == TomlParse(store.lines, <<>>, {})
        entries == {e \in parsed.document : e.table = <<"[sha512sums]">>}
    IN IF ~store.exists \/ ~parsed.ok
       THEN [store EXCEPT !.sha512sums = <<>>, !.status = "loaded"]
       ELSE [store EXCEPT !.sha512sums = [u \in {e.key : e \in entries} |->
                                            (CHOOSE e \in entries : e.key = u).value],
                          !.status = "loaded"]

\* lines 14-35: load_checksums
Loaded(store) ==
    LET parsed == TomlParse(store.lines, <<>>, {})
        document == parsed.document
        entries == {e \in document : e.table = <<"[sha512sums]">>}
        Err(kind) == [store EXCEPT !.status = "load_failed", !.error = kind]
    IN IF ~store.exists THEN [store EXCEPT !.sha512sums = <<>>, !.status = "loaded"]
       ELSE IF ~parsed.ok THEN Err("parse")
       ELSE IF \E e \in document : e.table = <<>> /\ e.key = <<"sha512sums">>
       THEN Err("expected sha512sums to be a table")
       ELSE IF \A e \in document : ~(e.kind = "table" /\ e.key = <<"[sha512sums]">>)
       THEN Err("expected sha512sums")
       ELSE IF \E e \in entries : e.kind # "string"
       THEN Err("expected checksum to be a string")
       ELSE [store EXCEPT !.sha512sums = [u \in {e.key : e \in entries} |->
                                            (CHOOSE e \in entries : e.key = u).value],
                          !.status = "loaded"]

SetLedger(rec) ==
    /\ ledger' = rec
    /\ UNCHANGED <<tpl, expansion, envVars, fsVars, procVars, histVars, xVars, runVars>>

load_checksums_call ==
    /\ ledger.status \in {"ready", "saved"}
    /\ SetLedger(Loaded([ledger EXCEPT !.before = ledger.sha512sums, !.error = None,
                                       !.after_save = ledger.status = "saved"]))

\* lines 37-52: save_checksums: the file is created anew and written
save_checksums_call ==
    /\ ledger.status \in {"ready", "loaded"}
    /\ SetLedger([ledger EXCEPT !.exists = TRUE,
                                !.lines = ChecksumsContent(ledger.sha512sums),
                                !.saved = ledger.sha512sums,
                                !.status = "saved"])

\* the ledgers of the workspace: up to two URLs with their digests
Ledgers ==
    {<<>>} \cup
    UNION {[urls -> LedgerDigests] :
              urls \in {{LedgerUrls[i], LedgerUrls[j]} : i, j \in 1..Len(LedgerUrls)}}

\* the ledger files: absent, written by save_checksums, written by hand, or
\* not a table of checksums
LedgerFiles ==
    {[exists |-> FALSE, lines |-> <<>>]}
    \cup {[exists |-> TRUE, lines |-> lines] :
             lines \in {ChecksumsContent(<<>>),
                        ChecksumsContent([u \in {<<"u">>, <<"v">>} |-> <<"d1">>]),
                        << <<>>, <<"[sha512sums]">>, <<Quote, "u", Quote, "=", Quote, "d2", Quote>> >>,
                        <<<<"[sha512sums]">>, <<"u", "=", Quote, "d2", Quote>>>>,
                        <<>>,
                        <<<<"garbage">>>>,
                        <<<<"[other]">>, <<Quote, "u", Quote, "=", Quote, "d1", Quote>>>>,
                        <<<<"sha512sums", "=", Quote, "d1", Quote>>>>,
                        <<<<"[sha512sums]">>, <<Quote, "u", Quote, "=", "1">>>>,
                        <<<<"[sha512sums]">>, <<Quote, "u", Quote, "=", Quote, "d1">>>>}}

InitLedger ==
    /\ InitProcesses({}, {CHOOSE m \in Manifests : m["t2"].default_download_artifact = "u3"},
                     {"linux"}, {<<>>}, {[t \in ToolSet |-> AbsentDir]}, None)
    /\ InitInputs({DefaultArgs}, {<<>>}, {QuietChild})
    /\ XIdle
    /\ tpl = TplIdle
    /\ expansion = ExpansionIdle
    /\ ledger \in {[LedgerIdle EXCEPT !.status = "ready", !.exists = file.exists,
                                      !.lines = file.lines, !.sha512sums = sums] :
                      file \in LedgerFiles, sums \in Ledgers}

NextLedger ==
    \/ load_checksums_call
    \/ save_checksums_call

SpecLedger == InitLedger /\ [][NextLedger]_vars

----------------------------------------------------------------------------
(* Properties of the ledger file *)

\* the files that exist and hold no table sha512sums of strings
BrokenLedgers ==
    {<<>>,
     <<<<"garbage">>>>,
     <<<<"[other]">>, <<Quote, "u", Quote, "=", Quote, "d1", Quote>>>>,
     <<<<"sha512sums", "=", Quote, "d1", Quote>>>>,
     <<<<"[sha512sums]">>, <<Quote, "u", Quote, "=", "1">>>>,
     <<<<"[sha512sums]">>, <<Quote, "u", Quote, "=", Quote, "d1">>>>}

\* C35: load_checksums gives an empty ledger and no error when the ledger
\* file is absent; when the file exists and is not a table sha512sums of
\* strings it returns an error and leaves the ledger of the workspace as it
\* was.
C35_LoadAbsentOrUnparsable ==
    ledger.status \in {"loaded", "load_failed"} =>
        /\ ~ledger.exists => ledger.status = "loaded" /\ ledger.sha512sums = <<>>
        /\ (ledger.exists /\ ledger.lines \in BrokenLedgers) =>
               /\ ledger.status = "load_failed"
               /\ ledger.sha512sums = ledger.before

C35_Witness ==
    /\ ledger.status = "load_failed"
    /\ ledger.exists
    /\ ledger.lines = <<<<"[sha512sums]">>, <<Quote, "u", Quote, "=", "1">>>>
    /\ ledger.sha512sums # <<>>
    /\ ledger.sha512sums = ledger.before

\* the position of a URL in the key order
KeyRank(url) == CHOOSE i \in 1..Len(LedgerUrls) : LedgerUrls[i] = url

\* C36: save_checksums overwrites the file with one line per entry of the
\* ledger, in the order of the URLs, and load_checksums of the written file
\* gives the saved ledger, whatever characters the URLs contain.
C36_RoundTrip ==
    /\ ledger.status = "saved" =>
          LET sums == ledger.saved
              urls == [i \in 1..(Len(ledger.lines) - 1) |->
                         CHOOSE u \in DOMAIN sums :
                            ledger.lines[i + 1] =
                               <<Quote>> \o u \o <<Quote, "=", Quote>> \o sums[u] \o <<Quote>>]
          IN /\ ledger.exists
             /\ ledger.lines[1] = <<"[sha512sums]">>
             /\ Len(ledger.lines) = 1 + Cardinality(DOMAIN sums)
             /\ \A i, j \in 1..Len(urls) : i < j => KeyRank(urls[i]) < KeyRank(urls[j])
    /\ (ledger.status \in {"loaded", "load_failed"} /\ ledger.after_save) =>
          /\ ledger.status = "loaded"
          /\ ledger.sha512sums = ledger.saved

----------------------------------------------------------------------------
(* Properties of the expansion of a configuration *)

\* the positions <<tool, command>> of the commands of a configuration
CommandPositions(config) ==
    {<<t, c>> \in (1..Len(config)) \X (1..3) : c <= Len(config[t].commands)}

PlatformExample ==
    <<"$", "{", "linux", ":", "bin", "}", "/lsd", "$", "{", "windows", ":", ".exe", "}">>

\* C31: a directive named after a platform expands to its argument on that
\* host platform and to the empty text on every other one, whatever text is
\* next to it: ${linux:bin}/lsd${windows:.exe} expands to bin/lsd on Linux and
\* to /lsd.exe on Windows.
C31_PlatformDirective ==
    /\ \A i \in 1..Len(expansion.resolved) :
          LET r == expansion.resolved[i]
          IN \A q \in Platforms :
                r.directive = <<q>> =>
                    r.output = IF q = host THEN r.arguments[1] ELSE <<>>
    /\ expansion.status = "ok" =>
          \A pos \in CommandPositions(expansion.configuration) :
             LET before == expansion.original_configuration[pos[1]].commands[pos[2]]
                 after == expansion.configuration[pos[1]].commands[pos[2]]
             IN before.command_string = PlatformExample =>
                   after.command_string =
                       CASE host = "linux"   -> <<"bin", "/lsd">>
                         [] host = "windows" -> <<"/lsd", ".exe">>
                         [] OTHER            -> <<"/lsd">>

C31_Witness ==
    /\ expansion.status = "ok"
    /\ host = "windows"
    /\ \E pos \in CommandPositions(expansion.configuration) :
          /\ expansion.original_configuration[pos[1]].commands[pos[2]].command_string
                = PlatformExample
          /\ expansion.configuration[pos[1]].commands[pos[2]].command_string
                = <<"/lsd", ".exe">>
    /\ \E i \in 1..Len(expansion.resolved) :
          /\ expansion.resolved[i].directive = <<"linux">>
          /\ expansion.resolved[i].arguments = <<<<"l">>>>
          /\ expansion.resolved[i].output = <<>>

\* download_task.rs line 64: the directory of a tool under the cache root
ToolPathName(tool) == tool.name \o <<"-">> \o tool.version

\* the last component of a path
RECURSIVE FileName(_)
FileName(path) ==
    IF \A i \in 1..Len(path) : path[i] # "/" THEN path
    ELSE FileName(Tail(path))

\* C32: ${dir:T} expands to the path of the cache directory of tool T of the
\* configuration as it was before the expansion: the directory named
\* <name>-<version> under the cache root, into which download_tool extracts
\* the tool.
C32_DirDirective ==
    \A i \in 1..Len(expansion.resolved) :
       LET r == expansion.resolved[i]
           tool == FindToolNamed(expansion.original_configuration, r.arguments[1])
       IN r.directive = <<"dir">> =>
             /\ tool # <<>>
             /\ FileName(r.output) = ToolPathName(tool[1])

\* the commands a configuration declares, each with the version of its tool
DeclaredCommands(config) ==
    {[name |-> config[pos[1]].commands[pos[2]].name,
      command_string |-> config[pos[1]].commands[pos[2]].command_string,
      tool_name |-> config[pos[1]].name,
      version |-> config[pos[1]].version] : pos \in CommandPositions(config)}

\* the text a template of the configuration stands for where version is
\* bound to `version`, references being followed at most `fuel` deep
RECURSIVE Expanded(_, _, _, _)
Expanded(config, text, version, fuel) ==
    LET parts == ExpectedParts(text, 1, <<>>)
        Referenced(name) == CHOOSE c \in DeclaredCommands(config) : c.name = name
        Output(part) ==
            CASE part.kind = "plain"           -> part.text
              [] part.directive = <<"version">> -> version
              [] part.directive = <<"cmd">>     ->
                    IF fuel = 0 THEN <<>>
                    ELSE Expanded(config, Referenced(part.arguments[1]).command_string,
                                  Referenced(part.arguments[1]).version, fuel - 1)
              [] part.directive = <<"dir">>     -> DirReplacer(config, host, part).text
              [] part.directive = <<"env">>     -> EnvReplacer(hostEnv, part).text
              [] part.directive = <<host>>      -> part.arguments[1]
              [] OTHER                          -> <<>>
    IN Flatten([i \in 1..Len(parts) |-> Output(parts[i])])

\* C33: where the references between commands have no cycle, ${cmd:C}
\* expands to the command string command C has in the expanded configuration,
\* in which ${version} is the version of the tool that declares C, whatever
\* the order of the tools and of the commands.
C33_CommandReference ==
    expansion.status = "ok" =>
        LET before == DeclaredCommands(expansion.original_configuration)
            after == DeclaredCommands(expansion.configuration)
        IN /\ \A c \in before :
                 \E e \in after :
                    /\ e.name = c.name
                    /\ e.tool_name = c.tool_name
                    /\ e.command_string =
                          Expanded(expansion.original_configuration, c.command_string,
                                   c.version, 3)
           /\ \A i \in 1..Len(expansion.resolved) :
                 LET r == expansion.resolved[i]
                 IN r.directive = <<"cmd">> =>
                       \E e \in after : /\ e.name = r.arguments[1]
                                        /\ e.command_string = r.output

C33_Witness ==
    /\ expansion.status = "ok"
    /\ \E a, b, c \in DeclaredCommands(expansion.original_configuration) :
          /\ a.name = <<"a">> /\ a.tool_name = <<"lsd">>
          /\ a.command_string = <<"$", "{", "cmd", ":", "b", "}", " ", "two">>
          /\ b.name = <<"b">>
          /\ b.command_string = <<"$", "{", "cmd", ":", "c", "}">>
          /\ c.name = <<"c">> /\ c.tool_name = <<"foo">>
          /\ c.command_string = <<"$", "{", "version", "}">>
    /\ \E e \in DeclaredCommands(expansion.configuration) :
          e.name = <<"a">> /\ e.command_string = <<"1.2.3", " ", "two">>
    /\ expansion.configuration[1].name = <<"lsd">>

\* the configuration the expansion was called with
SourceConfiguration ==
    IF expansion.status = "called" THEN expansion.configuration
    ELSE expansion.original_configuration

\* the commands a command string refers to with ${cmd:...}
ReferencedCommands(text) ==
    LET parts == ExpectedParts(text, 1, <<>>)
    IN {parts[i].arguments[1] :
           i \in {j \in 1..Len(parts) : parts[j].kind = "substitution"
                                        /\ parts[j].directive = <<"cmd">>}}

\* the cmd: reference graph of a configuration
ReferenceGraph(config) ==
    UNION {{<<c.name, n>> : n \in ReferencedCommands(c.command_string)} :
              c \in DeclaredCommands(config)}

RECURSIVE ReachableFrom(_, _, _)
ReachableFrom(edges, names, steps) ==
    IF steps = 0 THEN names
    ELSE ReachableFrom(edges, names \cup {e[2] : e \in {d \in edges : d[1] \in names}},
                       steps - 1)

\* a command refers to itself, directly or through other commands
Cyclic(config) ==
    \E c \in DeclaredCommands(config) :
       c.name \in ReachableFrom(ReferenceGraph(config),
                                {e[2] : e \in {d \in ReferenceGraph(config) : d[1] = c.name}},
                                3)

StandardDirectives ==
    {<<"version">>, <<"dir">>, <<"env">>, <<"cmd">>, <<"linux">>, <<"macos">>, <<"windows">>}

\* how the expansion of the parts of a template ends, the commands of `path`
\* being under expansion: with a value, with an error, or by expanding a
\* command that is already under expansion
RECURSIVE PartsOutcome(_, _, _)
PartsOutcome(config, parts, path) ==
    IF parts = <<>> THEN "value"
    ELSE LET part == Head(parts)
             target == part.arguments[1]
             declared == {c \in DeclaredCommands(config) : c.name = target}
             first ==
                CASE part.kind = "plain" -> "value"
                  [] part.kind # "plain" /\ part.directive \notin StandardDirectives -> "error"
                  [] part.kind # "plain" /\ part.directive = <<"dir">> ->
                        IF \E t \in 1..Len(config) : config[t].name = target
                        THEN "value" ELSE "error"
                  [] part.kind # "plain" /\ part.directive = <<"env">> ->
                        IF \E i \in 1..Len(hostEnv) : <<hostEnv[i][1]>> = target
                        THEN "value" ELSE "error"
                  [] part.kind # "plain" /\ part.directive = <<"cmd">> ->
                        IF declared = {} THEN "error"
                        ELSE IF target \in path THEN "diverges"
                        ELSE PartsOutcome(config,
                                          ExpectedParts((CHOOSE c \in declared : TRUE).command_string,
                                                        1, <<>>),
                                          path \cup {target})
                  [] OTHER -> "value"
         IN IF first = "value" THEN PartsOutcome(config, Tail(parts), path) ELSE first

\* how the expansion of a configuration ends: the outcome of the first
\* template, in the order of expansion, that does not yield a value
ConfigurationOutcome(config) ==
    LET outcomes ==
            Flatten([t \in 1..Len(config) |->
                       [f \in 1..Len(TemplateFields(config[t])) |->
                           LET field == TemplateFields(config[t])[f]
                           IN PartsOutcome(config,
                                           ExpectedParts(FieldText(config[t], field), 1, <<>>),
                                           IF field[1] = "commands"
                                           THEN {config[t].commands[field[2]].name}
                                           ELSE {})]])
        failing == {i \in 1..Len(outcomes) : outcomes[i] # "value"}
    IN IF failing = {} THEN "value"
       ELSE outcomes[CHOOSE i \in failing : \A j \in failing : i <= j]

\* the expansion has returned a value or an error
ExpansionReturned == expansion.status \in {"ok", "err"}

-----------------------------------------------------------------------------
(* Properties of the duration notice *)

\* the notices 'Command took N seconds' among the messages of a command
TookNotices(p) ==
    {i \in 1..Len(cmd[p].messages) : cmd[p].messages[i].kind = "took"}

\* the commands whose binary ran and returned an exit code
Timed(p) == cmd[p].rpc = "done" /\ cmd[p].outcome = "ok" /\ cmd[p].executes = 1

\* C37: run_command prints 'Command took N seconds' exactly when the end
\* timestamp minus the start timestamp is strictly more than 4 seconds, N
\* being the whole seconds elapsed; a duration of 4 seconds or less prints
\* nothing.
C37_DurationNotice ==
    \A p \in active :
        Timed(p) =>
            LET elapsed == child.end_time - child.start_time
            IN /\ (TookNotices(p) # {}) <=> (elapsed > 4000)
               /\ Cardinality(TookNotices(p)) <= 1
               /\ \A i \in TookNotices(p) :
                      \E N \in 0..(elapsed \div 1000) :
                          /\ cmd[p].messages[i].text = <<ToString(N)>>
                          /\ N * 1000 <= elapsed
                          /\ elapsed < (N + 1) * 1000

C37_Witness ==
    \E p \in active :
        /\ Timed(p)
        /\ child.end_time - child.start_time = 4200
        /\ \E i \in TookNotices(p) : cmd[p].messages[i].text = <<"4">>

-----------------------------------------------------------------------------
(* Properties of the order of acquisition and execution *)

\* the process has called run_command: it has looked the command up, or
\* tried the lock, or executed a binary
InRunCommand(p) ==
    \/ cmd[p].rpc # "none"
    \/ cmd[p].tryLocks > 0
    \/ cmd[p].acquired > 0
    \/ cmd[p].executes > 0
    \/ lock = p

\* run_download_task of the process has returned Ok: the host pass went
\* through every tool, the secondary pass left no declared URL without a
\* digest, and the ledger was saved if it changed
DownloadTaskSucceeded(p) ==
    /\ pc[p] = "idle"
    /\ result[p] = "ok"
    /\ toolIdx[p] = Len(Tools) + 1
    /\ \A t \in ToolSet : <<"download", t>> \in effects[p] => <<"sidecar_write", t>> \in effects[p]
    /\ \A k \in 1..NSlots : SlotDeclared(k) => SlotUrl(k) \in DOMAIN newSums[p]
    /\ tempLive[p] = 0
    /\ loaded[p] = newSums[p]
    /\ (newSums[p] # loadedAtStart[p]) => (ledgerWrites[p] = 1 /\ load_checksums(ledgerFile) = newSums[p])

\* the run of the process ended with an error of the acquisition
AcquisitionFailed(p) ==
    /\ pc[p] = "idle"
    /\ result[p] \notin {None, "ok", "running"}

\* the exit status of a process that panics
PanicExit == 101

\* ToolToolRunnerInitial::run lines 41-53: the exit code of the invocation
\* whose run_download_task returned an error; a panic (todo!() of
\* extract_tool) is no error value, it unwinds through run and ends the
\* process
AcquisitionExit(p) ==
    IF ~AcquisitionFailed(p) THEN cmd[p].exit
    ELSE IF result[p] = "panic" THEN PanicExit
    ELSE ProcessExit("err")

\* C38: a binary is executed (and the lock is tried) only after
\* run_download_task has returned Ok, that is after the host pass of every
\* tool, the secondary pass and the save of the ledger; when the acquisition
\* of any tool fails the run ends with exit code 1, no lock was tried and no
\* binary was executed.
C38_ExecuteAfterAcquisition ==
    \A p \in active :
        /\ InRunCommand(p) => DownloadTaskSucceeded(p)
        /\ AcquisitionFailed(p) =>
               /\ AcquisitionExit(p) = 1
               /\ cmd[p] = CmdIdle
               /\ lock # p

-----------------------------------------------------------------------------
(* Properties of interrupted runs *)

\* the process is inside download_tool, after the cache directory was
\* recreated and before the marker is written
Acquiring(p) == pc[p] \in {"download", "replace", "extract", "finish"}

\* C39: with one process, in every state a run can be interrupted or fail
\* in, a cache directory has a sidecar marker only if it holds every file of
\* an archive, the archive whose digest the marker holds; the cache directory
\* and its old marker are deleted before the download starts, and the
\* marker is written last, after the extraction and the deletion of the temp
\* directory.
C39_MarkerOnlyAfterExtraction ==
    \A t \in ToolSet :
        /\ cache[t].sidecar # None =>
               /\ cache[t].exists
               /\ \E c \in Contents :
                      /\ \A e \in Entries : cache[t].files[e] = c
                      /\ cache[t].sidecar # EmptyMarker => cache[t].sidecar = compute_sha512(c)
        /\ \A p \in active :
               /\ (Acquiring(p) /\ CurTool(p) = t) =>
                      /\ cache[t].sidecar = None
                      /\ tempLive[p] = 1
               /\ <<"sidecar_write", t>> \in effects[p] =>
                      /\ <<"extract", t>> \in effects[p]
                      /\ ~(Acquiring(p) /\ CurTool(p) = t)
                      /\ pc[p] = "host" => tempLive[p] = 0

C39_Witness ==
    \E p \in active, t \in ToolSet :
        /\ result[p] = "interrupted"
        /\ cacheAtStart[p][t].sidecar # None
        /\ cache[t].exists
        /\ cache[t].files["e1"] \in Contents
        /\ cache[t].files["e2"] = None
        /\ cache[t].sidecar = None

\* the run before the last one of the process failed or was interrupted,
\* the last one came to its end, and the remote content never changed
RanAgainAfterFailure(p) ==
    /\ runs[p] >= 2
    /\ pc[p] = "idle"
    /\ prevResult[p] \notin {None, "ok", "running"}
    /\ result[p] # "interrupted"
    /\ remoteChanges = 0

\* every tool has a marker equal to the ledger digest of its artifact for
\* the host, and the files of that archive
Recovered ==
    \A t \in ToolSet :
        LET u == SelectArtifact(t)
        IN /\ LedgerLoads(ledgerFile)
           /\ u \in DOMAIN load_checksums(ledgerFile)
           /\ cache[t].sidecar = load_checksums(ledgerFile)[u]
           /\ HoldsPayload(cache[t], cache[t].sidecar)

\* C40: after a run of run_download_task that failed or was interrupted
\* after any step, the next uninterrupted run against the same remote
\* content returns Ok and leaves, for every tool, a marker equal to the
\* ledger digest of its host artifact and a fully extracted cache directory.
C40_RecoversAfterFailure ==
    \A p \in active : RanAgainAfterFailure(p) => (result[p] = "ok" /\ Recovered)

\* every tool has an artifact for the host, of a file type extract_tool
\* handles
Acquirable ==
    \A t \in ToolSet :
        /\ SelectArtifact(t) # NoUrl
        /\ extract_tool(get_file_type_from_url(UrlText(SelectArtifact(t)))) # "todo"

\* the digests of a ledger file are those of the remote content
AgreesWithRemote(file) ==
    /\ LedgerLoads(file)
    /\ \A u \in DOMAIN load_checksums(file) :
           load_checksums(file)[u] = compute_sha512(remote[u])

\* the same for the configurations an uninterrupted run succeeds with, the
\* ledger file being as the earlier run left it: violated by a run
\* interrupted between the creation and the write of the ledger file
RecoversWhenRunCanSucceed ==
    \A p \in active :
        (/\ RanAgainAfterFailure(p)
         /\ Acquirable
         /\ (fileAtStart[p] = TruncatedLedger \/ AgreesWithRemote(fileAtStart[p])))
        => (result[p] = "ok" /\ Recovered)

\* the same when the ledger file was not left truncated: holds
RecoversUnlessLedgerTruncated ==
    \A p \in active :
        (/\ RanAgainAfterFailure(p)
         /\ Acquirable
         /\ AgreesWithRemote(fileAtStart[p]))
        => (result[p] = "ok" /\ Recovered)

====
